---- MODULE Spec2Model ----
(***************************************************************************)
(* One-sided payment scanning (tari_transaction_services).                 *)
(*                                                                         *)
(* The two wasm entry points, scan_output_for_one_sided_payment (full      *)
(* wallet) and scan_output_for_one_sided_payment_ledger (view only), are   *)
(* modelled step by step.  The cryptographic primitives they call live in  *)
(* crates outside src/ and are modelled symbolically from the contracts of *)
(* spec.md section 6 (perfect cryptography: no collisions, DH symmetric,   *)
(* decryption succeeds only under the key and commitment used to encrypt). *)
(***************************************************************************)
EXTENDS Integers, Sequences, FiniteSets, TLC

\* ------------------------------------------------------------------ bounds
\* Number of distinct private scalars the callers and senders draw from.
NumKeys == 2
\* Longest known_script_keys list a caller supplies.
MaxKnownKeys == 2
\* Largest MAX a MaxSizeString<MAX> is instantiated with.
MaxSize == 2
\* Longest buffer a CovenantTokenDecoder reads, and the most calls of next().
MaxBufLen == 3
MaxCalls == 4
\* OutputFields: the longest list of the exhaustive part, and the longest buffer.
MaxFields == 3
MaxWire == 3
\* OrFilter: the longest context of the exhaustive part.
MaxTokens == 4
\* derive_shard_key: the largest last key byte, epoch and interval tried.
MaxLastByte == 3
MaxEpoch == 3
MaxInterval == 4

\* ----------------------------------------------------------------- options
None == <<>>
Some(x) == <<x>>
IsSome(o) == o # <<>>
Unwrap(o) == o[1]

\* ------------------------------------------------------- u64 and JS numbers
\* A u64 is written as three limbs <<a, b, c>> = a * 2^44 + b * 2^22 + c so
\* that values around 2^53 stay inside the checker's integers.
Limb == 2 ^ 22
U64(a, b, c) == <<a, b, c>>
\* Number::MAX_SAFE_INTEGER = 2^53 - 1 = (2^9 - 1) * 2^44 + (2^22 - 1) * 2^22 + (2^22 - 1)
MAX_SAFE_INTEGER == U64(2 ^ 9 - 1, Limb - 1, Limb - 1)
U64Leq(x, y) ==
    \/ x[1] < y[1]
    \/ x[1] = y[1] /\ x[2] < y[2]
    \/ x[1] = y[1] /\ x[2] = y[2] /\ x[3] <= y[3]
\* The u64 values outputs carry: the largest JS-safe integer and its successor.
Values == {MAX_SAFE_INTEGER, U64(2 ^ 9, 0, 0)}

\* ------------------------------------------------- symbolic curve arithmetic
\* A scalar is a formal sum of generators: key atoms and hash-derived scalars.
Scalar(as, hs) == [atoms |-> as, hashes |-> hs]
PrivateKeyOf(k) == Scalar({k}, {})
PrivateKeys == {PrivateKeyOf(k) : k \in 1..NumKeys}
ScalarAdd(a, b) == Scalar(a.atoms \cup b.atoms, a.hashes \cup b.hashes)
\* PublicKey::from_secret_key: k * G, written by its discrete logarithm.
from_secret_key(sk) == [pt |-> sk]
PointAdd(p, q) == [pt |-> ScalarAdd(p.pt, q.pt)]
PublicKeys == {from_secret_key(sk) : sk \in PrivateKeys}
\* CommsDHKE::new(sk, pk): symmetric in the two discrete logarithms.
CommsDHKE_new(sk, pk) == {sk, pk.pt}
\* diffie_hellman_stealth_domain_hasher: domain-separated hash of DH(sk, pk).
diffie_hellman_stealth_domain_hasher(sk, pk) == [stealth |-> CommsDHKE_new(sk, pk)]
\* PrivateKey::from_uniform_bytes on the 64-byte digest (always the right size).
from_uniform_bytes(hasher) == [ok |-> TRUE, val |-> Scalar({}, {hasher})]
\* stealth_address_script_spending_key: H(..) * G + spend public key.
stealth_address_script_spending_key(hasher, spend_pk) ==
    PointAdd(from_secret_key(from_uniform_bytes(hasher).val), spend_pk)

\* ---------------------------------------------------- commitments, payloads
\* The blinding factors senders use.
Masks == {PrivateKeyOf(0)}
Commit(value, mask) == [v |-> value, k |-> mask]
Commitments == {Commit(v, k) : v \in Values, k \in Masks}
\* RangeProofService::verify_mask: the commitment opens to (value, mask).
prover_verify_mask(commitment, spending_key, value, fault) ==
    IF fault = "verify_mask"
    THEN [ok |-> FALSE, val |-> FALSE, err |-> "RangeProofError"]
    ELSE [ok |-> TRUE, val |-> (commitment = Commit(value, spending_key)), err |-> ""]
\* shared_secret_to_output_encryption_key: one-way KDF of the shared secret.
shared_secret_to_output_encryption_key(shared_secret, fault) ==
    IF fault = "kdf"
    THEN [ok |-> FALSE, val |-> None, err |-> "KeyManagerServiceError"]
    ELSE [ok |-> TRUE, val |-> Some([kdf |-> shared_secret]), err |-> ""]
\* EncryptedData::encrypt_data: AEAD under a key bound to the commitment.
Encrypt(encryption_key, commitment, value, mask) ==
    [key |-> Some(encryption_key), ad |-> commitment, value |-> value, mask |-> mask]
\* Bytes that authenticate under no key.
GarbageData ==
    [key |-> None, ad |-> Commit(MAX_SAFE_INTEGER, PrivateKeyOf(0)),
     value |-> MAX_SAFE_INTEGER, mask |-> PrivateKeyOf(0)]
\* EncryptedData::decrypt_data: opens only under the same key and commitment;
\* it may also fail for a reason that is not a key mismatch (EncryptedDataError).
decrypt_data(encryption_key, commitment, encrypted_data, fault) ==
    IF fault = "decrypt_data"
    THEN [ok |-> FALSE, committed_value |-> None, spending_key |-> None,
          err |-> "EncryptedDataError"]
    ELSE IF encrypted_data.key = Some(encryption_key) /\ encrypted_data.ad = commitment
    THEN [ok |-> TRUE, committed_value |-> Some(encrypted_data.value),
          spending_key |-> Some(encrypted_data.mask), err |-> ""]
    ELSE [ok |-> FALSE, committed_value |-> None, spending_key |-> None,
          err |-> "AuthError"]

\* ------------------------------------------------------------ hex, strings
\* A string argument: the hex (or borsh) encoding of a term, or malformed text.
to_hex(x) == [valid |-> TRUE, enc |-> Some(x)]
Malformed == [valid |-> FALSE, enc |-> None]
from_hex(s) ==
    IF s.valid THEN [ok |-> TRUE, val |-> s.enc, err |-> ""]
    ELSE [ok |-> FALSE, val |-> None, err |-> "HexError"]

\* ------------------------------------------------------------- tari_script
PushPubKey(pk) == [op |-> "PushPubKey", pk |-> Some(pk)]
Drop == [op |-> "Drop", pk |-> None]
\* Mutant of IsPatternA: the slice pattern matches a prefix of the script.
IsPatternAPrefix(script) == Len(script) >= 1 /\ script[1].op = "PushPubKey"
\* match arm [Opcode::PushPubKey(scanned_pk)]
IsPatternA(script) == Len(script) = 1 /\ script[1].op = "PushPubKey"
\* match arm [Opcode::PushPubKey(nonce), Opcode::Drop, Opcode::PushPubKey(scanned_pk)]
IsPatternB(script) ==
    /\ Len(script) = 3
    /\ script[1].op = "PushPubKey"
    /\ script[2].op = "Drop"
    /\ script[3].op = "PushPubKey"

\* ------------------------------------------------------- TransactionOutput
\* Only the fields the scans read are kept; hash() covers all of them.
TransactionOutput(features, commitment, script, sender_offset_public_key, encrypted_data) ==
    [features |-> features, commitment |-> commitment, script |-> script,
     sender_offset_public_key |-> sender_offset_public_key,
     encrypted_data |-> encrypted_data]
\* TransactionOutput::hash: a collision-free digest of the output.
OutputHash(output) == [digest |-> output]
\* TransactionOutput::verify_mask
verify_mask(output, spending_key, value, fault) ==
    prover_verify_mask(output.commitment, spending_key, value, fault)

\* --------------------------------------------------- RecoveredOutputResult
RecoveredOutputResult(hash, output_source, output_type, value, spending_key, script_key, maturity, error) ==
    [hash |-> hash, output_source |-> output_source, output_type |-> output_type,
     value |-> value, spending_key |-> spending_key, script_key |-> script_key,
     maturity |-> maturity, error |-> error]
DefaultResult == RecoveredOutputResult(None, None, None, None, None, None, None, None)
\* serde_wasm_bindgen serialises a u64 as a JS number, and fails outside the
\* safe-integer range.
SerializableU64(o) == o = None \/ U64Leq(Unwrap(o), MAX_SAFE_INTEGER)
to_value(r) ==
    IF SerializableU64(r.value) /\ SerializableU64(r.maturity)
    THEN [ok |-> TRUE, js |-> Some(r)]
    ELSE [ok |-> FALSE, js |-> None]
\* format!("{context}: {e}")
Message(context, e) == [context |-> context, cause |-> e]
\* Mutant of scan_error: the message is not stored in the record.
ScanErrorLosesMessage(error) == to_value(DefaultResult)
\* scan_error(error): to_value(&RecoveredOutputResult { error, ..default })
scan_error(error) == to_value([DefaultResult EXCEPT !.error = Some(error)])
\* Mutant of no_match: the absence of a match is reported as an error.
NoMatchReportedAsError == scan_error(Message("scan_output", "invalid value"))
\* no_match(): to_value(&RecoveredOutputResult::default())
no_match == to_value(DefaultResult)

\* ------------------------------------------------------------------ inputs
\* What a sender embeds as the stealth spending key for (view_pk, spend_pk).
SenderStealthKey(nonce_sk, view_pk, spend_pk) ==
    stealth_address_script_spending_key(
        diffie_hellman_stealth_domain_hasher(nonce_sk, view_pk), spend_pk)
PatternAScripts == {<<PushPubKey(p)>> : p \in PublicKeys}
PatternBScripts ==
    UNION {{<<PushPubKey(from_secret_key(n)), Drop, PushPubKey(p)>> :
              p \in {SenderStealthKey(n, a, b) : a \in PublicKeys, b \in PublicKeys}
                    \cup {from_secret_key(n)}} :
           n \in PrivateKeys}
\* Decodable scripts of neither shape: empty, truncated, extended, wrong kinds.
OtherScripts ==
    LET p == PushPubKey(from_secret_key(PrivateKeyOf(1)))
    IN  {<<>>, <<Drop>>, <<p, Drop>>, <<p, p>>, <<p, Drop, Drop>>,
         <<Drop, Drop, p>>, <<p, Drop, p, Drop>>}
Scripts == PatternAScripts \cup PatternBScripts \cup OtherScripts
\* Payloads a sender holding offset key o can produce, and unauthenticated bytes.
EncryptedDatas(o) ==
    {Encrypt(Unwrap(shared_secret_to_output_encryption_key(
                 CommsDHKE_new(o, r), "none").val), ad, v, k) :
        r \in PublicKeys, ad \in Commitments, v \in Values, k \in Masks}
    \cup {GarbageData}
OutputFeatures == {[output_type |-> "Standard", maturity |-> m] : m \in Values}
Outputs ==
    UNION {{TransactionOutput(f, c, s, from_secret_key(o), e) :
              f \in OutputFeatures, c \in Commitments, s \in Scripts,
              e \in EncryptedDatas(o)} :
           o \in PrivateKeys}
KeyLists == UNION {[1..n -> PrivateKeys] : n \in 0..MaxKnownKeys}
ScanOutput(known_script_keys, wallet_sk, output) ==
    [known_script_keys |-> known_script_keys, wallet_sk |-> wallet_sk, output |-> output]
\* JsValue arguments of the full-wallet scan: a ScanOutput object or anything else.
JsValues ==
    {to_hex(ScanOutput(ks, w, o)) : ks \in KeyLists, w \in PrivateKeys, o \in Outputs}
    \cup {Malformed}
\* String arguments of the ledger scan.
LedgerArgs ==
    [wallet_view_sk : {to_hex(k) : k \in PrivateKeys} \cup {Malformed},
     wallet_spend_pk : {to_hex(p) : p \in PublicKeys} \cup {Malformed},
     output : {to_hex(o) : o \in Outputs} \cup {Malformed}]
\* ------------------------------------------------------------------- state
VARIABLES
    pc,        \* where the running scan stands ("idle" between calls)
    entry,     \* which entry point was called
    val,       \* argument of scan_output_for_one_sided_payment
    args,      \* arguments of scan_output_for_one_sided_payment_ledger
    loc,       \* the local variables of the running scan
    result,    \* the JsValue handed back to the caller
    log,       \* the operations the scan has performed, in order
    dh_calls,  \* the (private key, public key) pairs given to CommsDHKE::new
    other,     \* a second scan, suspended while the one above runs
    mss,       \* the MaxSizeString last constructed
    decoder,   \* a CovenantTokenDecoder and what it has yielded
    codec,     \* the last OutputFields / OutputField encoding or decoding call
    orf,       \* the last call of OrFilter::filter
    builder,   \* a WalletOutputBuilder and the operations applied to it
    shard      \* the last call of derive_shard_key

\* The state outside the scans.
components == <<mss, decoder, codec, orf, builder, shard>>
\* The state of the scan that is running.
scan_vars == <<pc, entry, val, args, loc, result, log, dh_calls>>
vars == <<pc, entry, val, args, loc, result, log, dh_calls, other, components>>

NoLocals ==
    [scan_output |-> None, wallet_view_sk |-> None, wallet_spend_pk |-> None,
     output |-> None, output_source |-> None, script_private_key |-> None,
     shared_secret |-> None, committed_value |-> None, spending_key |-> None]

\* A scan that has not been called.
IdleScan ==
    [pc |-> "idle", entry |-> "none", val |-> None, args |-> None, loc |-> NoLocals,
     result |-> None, log |-> <<>>, dh_calls |-> <<>>]
\* No MaxSizeString constructed, no decoder created.
NoString == [op |-> "none", max |-> 0, input |-> <<>>, value |-> None]
NoDecoder == [created |-> FALSE, buf |-> <<>>, is_complete |-> FALSE, calls |-> <<>>]
NoCodec == [op |-> "none", fields |-> <<>>, buf |-> <<>>, byte |-> 0, result |-> None]
NoOrFilter == [op |-> "none", tokens |-> <<>>, output_set |-> {}, result |-> None]
NoBuilder ==
    [created |-> FALSE, b |-> <<>>,
     last |-> [op |-> "none", ok |-> TRUE, err |-> "", msg |-> ""],
     signed |-> FALSE, modified |-> FALSE]
NoShard ==
    [op |-> "none", public_key |-> <<>>, prev_shard_key |-> None, epoch |-> <<>>,
     interval |-> <<>>, block_hash |-> 0, result |-> None]

Init ==
    /\ pc = "idle"
    /\ entry = "none"
    /\ val = None
    /\ args = None
    /\ loc = NoLocals
    /\ result = None
    /\ log = <<>>
    /\ dh_calls = <<>>
    /\ other = IdleScan
    /\ mss = NoString
    /\ decoder = NoDecoder
    /\ codec = NoCodec
    /\ orf = NoOrFilter
    /\ builder = NoBuilder
    /\ shard = NoShard

\* return <JsValue>: to_value(..).unwrap() either yields the value or panics.
Emit(tv) ==
    IF tv.ok
    THEN pc' = "done" /\ result' = tv.js
    ELSE pc' = "panicked" /\ result' = None

\* ------------------------------------------- scan_output_for_one_sided_payment
\* known_keys: (public key, private key) pairs in the caller's order.
KnownKeys(known_script_keys) ==
    [i \in 1..Len(known_script_keys) |->
        [pk |-> from_secret_key(known_script_keys[i]), sk |-> known_script_keys[i]]]
\* Mutant of FindKnownKey: only the first known key is compared.
FindKnownKeyFirstOnly(known_keys, scanned_pk) ==
    IF Len(known_keys) = 0 \/ known_keys[1].pk # scanned_pk THEN None
    ELSE Some(known_keys[1])
\* Mutant of FindKnownKey: only the last known key is compared.
FindKnownKeyLastOnly(known_keys, scanned_pk) ==
    IF Len(known_keys) = 0 \/ known_keys[Len(known_keys)].pk # scanned_pk THEN None
    ELSE Some(known_keys[Len(known_keys)])
\* known_keys.iter().find(|x| &x.0 == scanned_pk): the first pair that matches.
FindKnownKey(known_keys, scanned_pk) ==
    LET hits == {i \in 1..Len(known_keys) : known_keys[i].pk = scanned_pk}
    IN  IF hits = {} THEN None
        ELSE Some(known_keys[CHOOSE i \in hits : \A j \in hits : i <= j])
\* Mutant of Matched: when a script private key is at hand the exchange uses it.
MatchedUsesScriptKey(output_source, script_private_key, sk, pk, ops) ==
    LET k == IF script_private_key = None THEN sk ELSE Unwrap(script_private_key)
    IN  [status |-> "matched", output_source |-> Some(output_source),
         script_private_key |-> script_private_key,
         shared_secret |-> Some(CommsDHKE_new(k, pk)),
         ops |-> ops \o <<"dh">>, dh |-> <<[sk |-> k, pk |-> pk]>>]
\* The outcome of a matching arm: the exchange of sk with the sender offset key.
Matched(output_source, script_private_key, sk, pk, ops) ==
    [status |-> "matched", output_source |-> Some(output_source),
     script_private_key |-> script_private_key,
     shared_secret |-> Some(CommsDHKE_new(sk, pk)),
     ops |-> ops \o <<"dh">>, dh |-> <<[sk |-> sk, pk |-> pk]>>]
NotMatched(status, ops) ==
    [status |-> status, output_source |-> None, script_private_key |-> None,
     shared_secret |-> None, ops |-> ops, dh |-> <<>>]
\* Mutant of StealthKeyMatches: the comparison with the script's key is skipped.
StealthKeyNotCompared(view_sk, spend_pk, script) == TRUE
\* The stealth-address comparison both entry points make.
StealthKeyMatches(view_sk, spend_pk, script) ==
    stealth_address_script_spending_key(
        diffie_hellman_stealth_domain_hasher(view_sk, Unwrap(script[1].pk)), spend_pk)
    = Unwrap(script[3].pk)
\* Mutant of MatchScript: a stealth-shaped script whose stealth key does not
\* match falls back to the known script keys.
MatchScriptFallsBackToKnownKeys(scan_output) ==
    LET output == scan_output.output
        script == output.script
        wallet_sk == scan_output.wallet_sk
        wallet_pk == from_secret_key(wallet_sk)
        known_keys == KnownKeys(scan_output.known_script_keys)
        scanned == IF IsPatternA(script) THEN script[1].pk
                   ELSE IF IsPatternB(script) THEN script[3].pk ELSE None
        matched_key == IF scanned = None THEN None
                       ELSE FindKnownKey(known_keys, Unwrap(scanned))
    IN  IF IsPatternB(script) /\ StealthKeyMatches(wallet_sk, wallet_pk, script)
        THEN Matched("StealthOneSided",
                     Some(ScalarAdd(wallet_sk,
                              from_uniform_bytes(diffie_hellman_stealth_domain_hasher(
                                  wallet_sk, Unwrap(script[1].pk))).val)),
                     wallet_sk, output.sender_offset_public_key,
                     <<"match_script", "stealth_hasher", "stealth_spending_key",
                       "from_uniform_bytes">>)
        ELSE IF matched_key = None
        THEN NotMatched("no_match", <<"match_script", "find_known_key">>)
        ELSE Matched("OneSided", Some(Unwrap(matched_key).sk),
                     Unwrap(matched_key).sk, output.sender_offset_public_key,
                     <<"match_script", "find_known_key">>)
\* Mutant of MatchScript: the stealth script private key is the offset scalar
\* alone, without the wallet key.
MatchScriptKeyWithoutWalletKey(scan_output) ==
    LET output == scan_output.output
        script == output.script
        wallet_sk == scan_output.wallet_sk
        wallet_pk == from_secret_key(wallet_sk)
        known_keys == KnownKeys(scan_output.known_script_keys)
    IN  IF IsPatternA(script)
        THEN LET matched_key == FindKnownKey(known_keys, Unwrap(script[1].pk))
             IN  IF matched_key = None
                 THEN NotMatched("no_match", <<"match_script", "find_known_key">>)
                 ELSE Matched("OneSided", Some(Unwrap(matched_key).sk),
                              Unwrap(matched_key).sk, output.sender_offset_public_key,
                              <<"match_script", "find_known_key">>)
        ELSE IF IsPatternB(script)
        THEN LET hasher == diffie_hellman_stealth_domain_hasher(wallet_sk, Unwrap(script[1].pk))
                 stealth_address_offset == from_uniform_bytes(hasher)
             IN  IF ~StealthKeyMatches(wallet_sk, wallet_pk, script)
                 THEN NotMatched("no_match",
                          <<"match_script", "stealth_hasher", "stealth_spending_key">>)
                 ELSE IF ~stealth_address_offset.ok
                 THEN NotMatched("panic",
                          <<"match_script", "stealth_hasher", "stealth_spending_key",
                            "from_uniform_bytes">>)
                 ELSE Matched("StealthOneSided",
                              Some(stealth_address_offset.val),
                              wallet_sk, output.sender_offset_public_key,
                              <<"match_script", "stealth_hasher", "stealth_spending_key",
                                "from_uniform_bytes">>)
        ELSE NotMatched("no_match", <<"match_script">>)
\* Mutant of MatchScript: a plain script no known key matches is also tried
\* against the wallet key.
MatchScriptTriesWalletKey(scan_output) ==
    LET output == scan_output.output
        script == output.script
        wallet_sk == scan_output.wallet_sk
        wallet_pk == from_secret_key(wallet_sk)
        known_keys == KnownKeys(scan_output.known_script_keys)
    IN  IF IsPatternA(script)
        THEN LET matched_key ==
                     FindKnownKey(known_keys \o <<[pk |-> wallet_pk, sk |-> wallet_sk]>>,
                                  Unwrap(script[1].pk))
             IN  IF matched_key = None
                 THEN NotMatched("no_match", <<"match_script", "find_known_key">>)
                 ELSE Matched("OneSided", Some(Unwrap(matched_key).sk),
                              Unwrap(matched_key).sk, output.sender_offset_public_key,
                              <<"match_script", "find_known_key">>)
        ELSE IF IsPatternB(script)
        THEN LET hasher == diffie_hellman_stealth_domain_hasher(wallet_sk, Unwrap(script[1].pk))
                 stealth_address_offset == from_uniform_bytes(hasher)
             IN  IF ~StealthKeyMatches(wallet_sk, wallet_pk, script)
                 THEN NotMatched("no_match",
                          <<"match_script", "stealth_hasher", "stealth_spending_key">>)
                 ELSE IF ~stealth_address_offset.ok
                 THEN NotMatched("panic",
                          <<"match_script", "stealth_hasher", "stealth_spending_key",
                            "from_uniform_bytes">>)
                 ELSE Matched("StealthOneSided",
                              Some(ScalarAdd(wallet_sk, stealth_address_offset.val)),
                              wallet_sk, output.sender_offset_public_key,
                              <<"match_script", "stealth_hasher", "stealth_spending_key",
                                "from_uniform_bytes">>)
        ELSE NotMatched("no_match", <<"match_script">>)
\* The match on output.script.as_slice() of the full-wallet scan.
MatchScript(scan_output) ==
    LET output == scan_output.output
        script == output.script
        wallet_sk == scan_output.wallet_sk
        wallet_pk == from_secret_key(wallet_sk)
        known_keys == KnownKeys(scan_output.known_script_keys)
    IN  IF IsPatternA(script)
        THEN LET matched_key == FindKnownKey(known_keys, Unwrap(script[1].pk))
             IN  IF matched_key = None
                 THEN NotMatched("no_match", <<"match_script", "find_known_key">>)
                 ELSE Matched("OneSided", Some(Unwrap(matched_key).sk),
                              Unwrap(matched_key).sk, output.sender_offset_public_key,
                              <<"match_script", "find_known_key">>)
        ELSE IF IsPatternB(script)
        THEN LET hasher == diffie_hellman_stealth_domain_hasher(wallet_sk, Unwrap(script[1].pk))
                 stealth_address_offset == from_uniform_bytes(hasher)
             IN  IF ~StealthKeyMatches(wallet_sk, wallet_pk, script)
                 THEN NotMatched("no_match",
                          <<"match_script", "stealth_hasher", "stealth_spending_key">>)
                 ELSE IF ~stealth_address_offset.ok
                 THEN NotMatched("panic",
                          <<"match_script", "stealth_hasher", "stealth_spending_key",
                            "from_uniform_bytes">>)
                 ELSE Matched("StealthOneSided",
                              Some(ScalarAdd(wallet_sk, stealth_address_offset.val)),
                              wallet_sk, output.sender_offset_public_key,
                              <<"match_script", "stealth_hasher", "stealth_spending_key",
                                "from_uniform_bytes">>)
        ELSE NotMatched("no_match", <<"match_script">>)

\* The caller invokes the full-wallet scan.
CallScan ==
    /\ pc = "idle"
    /\ \E v \in JsValues : val' = Some(v)
    /\ pc' = "scan"
    /\ entry' = "wallet"
    /\ UNCHANGED <<args, loc, result, log, dh_calls, other, components>>

\* Mutant of ScanDeserialize: the request parsed by a scan in progress is reused.
ScanDeserializeReusesParse ==
    /\ pc = "scan"
    /\ log' = log \o <<"from_value">>
    /\ IF other.entry = "wallet" /\ other.pc \in {"scan_match", "verify", "verify_mask"}
       THEN /\ pc' = "scan_match"
            /\ loc' = [loc EXCEPT !.scan_output = other.loc.scan_output]
            /\ UNCHANGED result
       ELSE IF Unwrap(val).valid
       THEN /\ pc' = "scan_match"
            /\ loc' = [loc EXCEPT !.scan_output = Unwrap(val).enc]
            /\ UNCHANGED result
       ELSE /\ Emit(scan_error(Message("scan_output", "invalid value")))
            /\ UNCHANGED loc
    /\ UNCHANGED <<entry, val, args, dh_calls, other, components>>
\* serde_wasm_bindgen::from_value(val)
ScanDeserialize ==
    /\ pc = "scan"
    /\ log' = log \o <<"from_value">>
    /\ IF Unwrap(val).valid
       THEN /\ pc' = "scan_match"
            /\ loc' = [loc EXCEPT !.scan_output = Unwrap(val).enc]
            /\ UNCHANGED result
       ELSE /\ Emit(scan_error(Message("scan_output", "invalid value")))
            /\ UNCHANGED loc
    /\ UNCHANGED <<entry, val, args, dh_calls, other, components>>

\* known_keys, wallet_pk and the match on the script.
ScanMatch ==
    /\ pc = "scan_match"
    /\ LET m == MatchScript(Unwrap(loc.scan_output))
       IN  /\ log' = log \o m.ops
           /\ dh_calls' = dh_calls \o m.dh
           /\ IF m.status = "matched"
              THEN /\ pc' = "verify"
                   /\ loc' = [loc EXCEPT !.output = Some(Unwrap(loc.scan_output).output),
                                         !.output_source = m.output_source,
                                         !.script_private_key = m.script_private_key,
                                         !.shared_secret = m.shared_secret]
                   /\ UNCHANGED result
              ELSE IF m.status = "panic"
              THEN pc' = "panicked" /\ UNCHANGED <<loc, result>>
              ELSE Emit(no_match) /\ UNCHANGED loc
    /\ UNCHANGED <<entry, val, args, other, components>>

\* ------------------------------------------------------ verify_onesided_output
\* Mutant of DecryptOutput: a failed decryption is reported as an error.
DecryptFailureIsError(output, shared_secret, f) ==
    LET encryption_key == shared_secret_to_output_encryption_key(shared_secret, f)
    IN  IF ~encryption_key.ok
        THEN [status |-> "error",
              error |-> Message("Could not derive encryption key", encryption_key.err),
              committed_value |-> None, spending_key |-> None,
              ops |-> <<"kdf", "primitive_failed">>]
        ELSE LET d == decrypt_data(Unwrap(encryption_key.val), output.commitment,
                                   output.encrypted_data, f)
             IN  [status |-> IF d.ok THEN "decrypted" ELSE "error",
                  error |-> Message("Could not verify output", "RangeProofError"),
                  committed_value |-> d.committed_value, spending_key |-> d.spending_key,
                  ops |-> IF f = "decrypt_data"
                          THEN <<"kdf", "decrypt_data", "primitive_failed">>
                          ELSE <<"kdf", "decrypt_data">>]
\* Key derivation and decryption, common to both verify functions.
DecryptOutput(output, shared_secret, f) ==
    LET encryption_key == shared_secret_to_output_encryption_key(shared_secret, f)
    IN  IF ~encryption_key.ok
        THEN [status |-> "error",
              error |-> Message("Could not derive encryption key", encryption_key.err),
              committed_value |-> None, spending_key |-> None,
              ops |-> <<"kdf", "primitive_failed">>]
        ELSE LET d == decrypt_data(Unwrap(encryption_key.val), output.commitment,
                                   output.encrypted_data, f)
             IN  [status |-> IF d.ok THEN "decrypted" ELSE "no_match",
                  error |-> Message("", ""),
                  committed_value |-> d.committed_value, spending_key |-> d.spending_key,
                  ops |-> IF f = "decrypt_data"
                          THEN <<"kdf", "decrypt_data", "primitive_failed">>
                          ELSE <<"kdf", "decrypt_data">>]
\* Mutant of VerifiedResult: the output hash is left out of the record.
VerifiedResultNoHash(output, output_source, script_private_key, committed_value, spending_key) ==
    RecoveredOutputResult(
        None, Some(output_source),
        Some(output.features.output_type), Some(committed_value),
        Some(to_hex(spending_key)), Some(to_hex(script_private_key)), None, None)
\* The RecoveredOutputResult of the full-wallet scan.
VerifiedResult(output, output_source, script_private_key, committed_value, spending_key) ==
    RecoveredOutputResult(
        Some(to_hex(OutputHash(output))), Some(output_source),
        Some(output.features.output_type), Some(committed_value),
        Some(to_hex(spending_key)), Some(to_hex(script_private_key)), None, None)
\* Mutant of VerifiedResultLedger: the record is filled as the full-wallet one,
\* with a key in script_key and no maturity.
VerifiedResultLedgerAsWallet(output, output_source, committed_value, spending_key) ==
    VerifiedResult(output, output_source, spending_key, committed_value, spending_key)
\* The RecoveredOutputResult of the ledger scan.
VerifiedResultLedger(output, output_source, committed_value, spending_key) ==
    RecoveredOutputResult(
        Some(to_hex(OutputHash(output))), Some(output_source),
        Some(output.features.output_type), Some(committed_value),
        Some(to_hex(spending_key)), None, Some(output.features.maturity), None)
\* Mutant of VerifyOutcome: the error is set on top of the populated record.
VerifyOutcomeErrorKeepsFields(output, committed_value, spending_key, f, success) ==
    LET verified == verify_mask(output, spending_key, committed_value, f)
    IN  IF ~verified.ok
        THEN to_value([success EXCEPT
                         !.error = Some(Message("Could not verify output", verified.err))])
        ELSE IF verified.val THEN to_value(success) ELSE no_match
\* Mutant of VerifyOutcome: the verdict of verify_mask is not looked at.
VerifyOutcomeIgnoresVerdict(output, committed_value, spending_key, f, success) ==
    LET verified == verify_mask(output, spending_key, committed_value, f)
    IN  IF ~verified.ok
        THEN scan_error(Message("Could not verify output", verified.err))
        ELSE to_value(success)
\* The match on output.verify_mask(..) given the success record.
VerifyOutcome(output, committed_value, spending_key, f, success) ==
    LET verified == verify_mask(output, spending_key, committed_value, f)
    IN  IF ~verified.ok
        THEN scan_error(Message("Could not verify output", verified.err))
        ELSE IF verified.val THEN to_value(success) ELSE no_match

\* What the verify_mask step adds to the log.
VerifyOps(f) == IF f = "none" THEN <<"verify_mask">> ELSE <<"verify_mask", "primitive_failed">>

\* Mutant of VerifyDecrypt: every outcome but a decrypted payload is an error.
VerifyDecryptRejectsWithError(at, next, faults) ==
    /\ pc = at
    /\ \E f \in faults :
       LET d == DecryptOutput(Unwrap(loc.output), Unwrap(loc.shared_secret), f)
       IN  /\ log' = log \o d.ops
           /\ IF d.status = "decrypted"
              THEN /\ pc' = next
                   /\ loc' = [loc EXCEPT !.committed_value = d.committed_value,
                                         !.spending_key = d.spending_key]
                   /\ UNCHANGED result
              ELSE Emit(scan_error(Message("Could not verify output", "RangeProofError")))
                   /\ UNCHANGED loc
    /\ UNCHANGED <<entry, val, args, dh_calls, other, components>>
\* shared_secret_to_output_encryption_key and EncryptedData::decrypt_data
VerifyDecrypt(at, next, faults) ==
    /\ pc = at
    /\ \E f \in faults :
       LET d == DecryptOutput(Unwrap(loc.output), Unwrap(loc.shared_secret), f)
       IN  /\ log' = log \o d.ops
           /\ IF d.status = "decrypted"
              THEN /\ pc' = next
                   /\ loc' = [loc EXCEPT !.committed_value = d.committed_value,
                                         !.spending_key = d.spending_key]
                   /\ UNCHANGED result
              ELSE IF d.status = "error"
              THEN Emit(scan_error(d.error)) /\ UNCHANGED loc
              ELSE Emit(no_match) /\ UNCHANGED loc
    /\ UNCHANGED <<entry, val, args, dh_calls, other, components>>

\* output.verify_mask and the result of verify_onesided_output
VerifyMask(faults) ==
    /\ pc = "verify_mask"
    /\ \E f \in faults :
          /\ log' = log \o VerifyOps(f)
          /\ Emit(VerifyOutcome(Unwrap(loc.output), Unwrap(loc.committed_value),
                                Unwrap(loc.spending_key), f,
                                VerifiedResult(Unwrap(loc.output),
                                               Unwrap(loc.output_source),
                                               Unwrap(loc.script_private_key),
                                               Unwrap(loc.committed_value),
                                               Unwrap(loc.spending_key))))
    /\ UNCHANGED <<entry, val, args, loc, dh_calls, other, components>>

\* ------------------------------------ scan_output_for_one_sided_payment_ledger
\* The caller invokes the ledger scan.
CallLedger ==
    /\ pc = "idle"
    /\ \E a \in LedgerArgs : args' = Some(a)
    /\ pc' = "ledger"
    /\ entry' = "ledger"
    /\ UNCHANGED <<val, loc, result, log, dh_calls, other, components>>

\* PrivateKey::from_hex, PublicKey::from_hex and BorshDeserialize::deserialize
ParseLedgerArgs(a) ==
    LET view == from_hex(a.wallet_view_sk)
        spend == from_hex(a.wallet_spend_pk)
        output == from_hex(a.output)
    IN  IF ~view.ok
        THEN [ok |-> FALSE, error |-> Message("wallet_sk", view.err), ops |-> <<"from_hex">>]
        ELSE IF ~spend.ok
        THEN [ok |-> FALSE, error |-> Message("wallet_sk", spend.err),
              ops |-> <<"from_hex", "from_hex">>]
        ELSE IF ~output.ok
        THEN [ok |-> FALSE, error |-> Message("", "borsh error"),
              ops |-> <<"from_hex", "from_hex", "deserialize">>]
        ELSE [ok |-> TRUE, error |-> Message("", ""),
              ops |-> <<"from_hex", "from_hex", "deserialize">>]

LedgerParse ==
    /\ pc = "ledger"
    /\ LET p == ParseLedgerArgs(Unwrap(args))
       IN  /\ log' = log \o p.ops
           /\ IF p.ok
              THEN /\ pc' = "ledger_match"
                   /\ loc' = [loc EXCEPT
                                !.wallet_view_sk = Unwrap(args).wallet_view_sk.enc,
                                !.wallet_spend_pk = Unwrap(args).wallet_spend_pk.enc,
                                !.output = Unwrap(args).output.enc]
                   /\ UNCHANGED result
              ELSE Emit(scan_error(p.error)) /\ UNCHANGED loc
    /\ UNCHANGED <<entry, val, args, dh_calls, other, components>>

\* Mutant of MatchScriptLedger: a plain script paying to the spend key is taken.
MatchScriptLedgerTakesPlain(wallet_view_sk, wallet_spend_pk, output) ==
    IF IsPatternA(output.script) /\ Unwrap(output.script[1].pk) = wallet_spend_pk
    THEN Matched("OneSided", None, wallet_view_sk, output.sender_offset_public_key,
                 <<"match_script">>)
    ELSE IF IsPatternB(output.script)
            /\ StealthKeyMatches(wallet_view_sk, wallet_spend_pk, output.script)
    THEN Matched("StealthOneSided", None, wallet_view_sk,
                 output.sender_offset_public_key,
                 <<"match_script", "stealth_hasher", "stealth_spending_key">>)
    ELSE NotMatched("no_match", <<"match_script">>)
\* Mutant of MatchScriptLedger: the shared secret is computed before the
\* stealth key is compared.
MatchScriptLedgerExchangesFirst(wallet_view_sk, wallet_spend_pk, output) ==
    IF IsPatternB(output.script)
    THEN IF ~StealthKeyMatches(wallet_view_sk, wallet_spend_pk, output.script)
         THEN [NotMatched("no_match",
                   <<"match_script", "dh", "stealth_hasher", "stealth_spending_key">>)
               EXCEPT !.dh = <<[sk |-> wallet_view_sk,
                                pk |-> output.sender_offset_public_key]>>]
         ELSE Matched("StealthOneSided", None, wallet_view_sk,
                      output.sender_offset_public_key,
                      <<"match_script", "stealth_hasher", "stealth_spending_key">>)
    ELSE NotMatched("no_match", <<"match_script">>)
\* The match on output.script.as_slice() of the ledger scan.
MatchScriptLedger(wallet_view_sk, wallet_spend_pk, output) ==
    IF IsPatternB(output.script)
    THEN IF ~StealthKeyMatches(wallet_view_sk, wallet_spend_pk, output.script)
         THEN NotMatched("no_match",
                  <<"match_script", "stealth_hasher", "stealth_spending_key">>)
         ELSE Matched("StealthOneSided", None, wallet_view_sk,
                      output.sender_offset_public_key,
                      <<"match_script", "stealth_hasher", "stealth_spending_key">>)
    ELSE NotMatched("no_match", <<"match_script">>)

LedgerMatch ==
    /\ pc = "ledger_match"
    /\ LET m == MatchScriptLedger(Unwrap(loc.wallet_view_sk), Unwrap(loc.wallet_spend_pk),
                                  Unwrap(loc.output))
       IN  /\ log' = log \o m.ops
           /\ dh_calls' = dh_calls \o m.dh
           /\ IF m.status = "matched"
              THEN /\ pc' = "ledger_verify"
                   /\ loc' = [loc EXCEPT !.output_source = m.output_source,
                                         !.shared_secret = m.shared_secret]
                   /\ UNCHANGED result
              ELSE Emit(no_match) /\ UNCHANGED loc
    /\ UNCHANGED <<entry, val, args, other, components>>

\* output.verify_mask and the result of verify_onesided_output_ledger
VerifyMaskLedger(faults) ==
    /\ pc = "ledger_verify_mask"
    /\ \E f \in faults :
          /\ log' = log \o VerifyOps(f)
          /\ Emit(VerifyOutcome(Unwrap(loc.output), Unwrap(loc.committed_value),
                                Unwrap(loc.spending_key), f,
                                VerifiedResultLedger(Unwrap(loc.output),
                                                     Unwrap(loc.output_source),
                                                     Unwrap(loc.committed_value),
                                                     Unwrap(loc.spending_key))))
    /\ UNCHANGED <<entry, val, args, loc, dh_calls, other, components>>

\* The call is over (returned or aborted); the next call starts from nothing.
Return ==
    /\ pc \in {"done", "panicked"}
    /\ pc' = "idle"
    /\ entry' = "none"
    /\ val' = None
    /\ args' = None
    /\ loc' = NoLocals
    /\ result' = None
    /\ log' = <<>>
    /\ dh_calls' = <<>>
    /\ UNCHANGED <<other, components>>

Steps(decrypt_faults, verify_faults) ==
    \/ ScanDeserialize
    \/ ScanMatch
    \/ VerifyDecrypt("verify", "verify_mask", decrypt_faults)
    \/ VerifyMask(verify_faults)
    \/ LedgerParse
    \/ LedgerMatch
    \/ VerifyDecrypt("ledger_verify", "ledger_verify_mask", decrypt_faults)
    \/ VerifyMaskLedger(verify_faults)
    \/ Return

\* Primitives behave as their contracts say.
Next ==
    \/ CallScan
    \/ CallLedger
    \/ Steps({"none"}, {"none"})

Spec == Init /\ [][Next]_vars

\* A primitive may also fail internally, independent of any key mismatch.
NextFault ==
    \/ CallScan
    \/ CallLedger
    \/ Steps({"none", "kdf", "decrypt_data"}, {"none", "verify_mask"})

SpecFault == Init /\ [][NextFault]_vars

\* ----------------------------------------------------------- two scans at once
\* The calls share nothing: each has its own arguments, locals and result.  A
\* second call is modelled by suspending the running scan and resuming the
\* other one, at any point between two steps.
ScanState ==
    [pc |-> pc, entry |-> entry, val |-> val, args |-> args, loc |-> loc,
     result |-> result, log |-> log, dh_calls |-> dh_calls]
\* Mutant of Switch: the resumed scan sees the output the suspended one holds.
SwitchSharesOutput ==
    /\ other # ScanState
    /\ other' = ScanState
    /\ pc' = other.pc
    /\ entry' = other.entry
    /\ val' = other.val
    /\ args' = other.args
    /\ loc' = IF IsSome(other.loc.output) /\ IsSome(loc.output)
              THEN [other.loc EXCEPT !.output = loc.output]
              ELSE other.loc
    /\ result' = other.result
    /\ log' = other.log
    /\ dh_calls' = other.dh_calls
    /\ UNCHANGED components
\* The scheduler suspends the running scan and resumes the other.
Switch ==
    /\ other # ScanState
    /\ other' = ScanState
    /\ pc' = other.pc
    /\ entry' = other.entry
    /\ val' = other.val
    /\ args' = other.args
    /\ loc' = other.loc
    /\ result' = other.result
    /\ log' = other.log
    /\ dh_calls' = other.dh_calls
    /\ UNCHANGED components

\* The outputs the concurrent callers scan: built by a sender with offset key
\* o for recipient_pk, committing to value v; tampered has the payload of
\* another value.
SenderOutput(script, o, recipient_pk, v, payload_v) ==
    LET k == PrivateKeyOf(0)
        key == Unwrap(shared_secret_to_output_encryption_key(
                          CommsDHKE_new(o, recipient_pk), "none").val)
    IN  TransactionOutput([output_type |-> "Standard", maturity |-> MAX_SAFE_INTEGER],
                          Commit(v, k), script, from_secret_key(o),
                          Encrypt(key, Commit(v, k), payload_v, k))
ConcurrentOutputs ==
    LET k1 == PrivateKeyOf(1)
        k2 == PrivateKeyOf(2)
        p1 == from_secret_key(k1)
        plain == <<PushPubKey(p1)>>
        stealth == <<PushPubKey(from_secret_key(k2)), Drop,
                     PushPubKey(SenderStealthKey(k2, p1, p1))>>
    IN  {SenderOutput(plain, k2, p1, MAX_SAFE_INTEGER, MAX_SAFE_INTEGER),
         SenderOutput(plain, k2, p1, U64(2 ^ 9, 0, 0), U64(2 ^ 9, 0, 0)),
         SenderOutput(stealth, k2, p1, MAX_SAFE_INTEGER, MAX_SAFE_INTEGER),
         SenderOutput(stealth, k2, p1, MAX_SAFE_INTEGER, U64(2 ^ 9, 0, 0)),
         SenderOutput(<<Drop>>, k2, p1, MAX_SAFE_INTEGER, MAX_SAFE_INTEGER)}
\* The known-key lists of the concurrent callers: none, one key, both orders
\* of two keys, and a key listed twice.
ConcurrentKeyLists ==
    {<<>>, <<PrivateKeyOf(1)>>, <<PrivateKeyOf(1), PrivateKeyOf(2)>>,
     <<PrivateKeyOf(2), PrivateKeyOf(1)>>, <<PrivateKeyOf(1), PrivateKeyOf(1)>>}
ConcurrentJsValues ==
    {to_hex(ScanOutput(ks, w, o)) :
        ks \in ConcurrentKeyLists, w \in {PrivateKeyOf(1), PrivateKeyOf(2)},
        o \in ConcurrentOutputs}
    \cup {Malformed}
ConcurrentLedgerArgs ==
    [wallet_view_sk : {to_hex(PrivateKeyOf(1))},
     wallet_spend_pk : {to_hex(from_secret_key(PrivateKeyOf(1))), Malformed},
     output : {to_hex(o) : o \in ConcurrentOutputs} \cup {Malformed}]

\* A caller invokes the full-wallet scan while another scan may be under way.
CallScanConcurrently ==
    /\ pc = "idle"
    /\ \E v \in ConcurrentJsValues : val' = Some(v)
    /\ pc' = "scan"
    /\ entry' = "wallet"
    /\ UNCHANGED <<args, loc, result, log, dh_calls, other, components>>
\* A caller invokes the ledger scan while another scan may be under way.
CallLedgerConcurrently ==
    /\ pc = "idle"
    /\ \E a \in ConcurrentLedgerArgs : args' = Some(a)
    /\ pc' = "ledger"
    /\ entry' = "ledger"
    /\ UNCHANGED <<val, loc, result, log, dh_calls, other, components>>

NextConcurrent ==
    \/ CallScanConcurrently
    \/ CallLedgerConcurrently
    \/ Steps({"none"}, {"none"})
    \/ Switch

SpecConcurrent == Init /\ [][NextConcurrent]_vars

\* ------------------------------------------------------------ MaxSizeString
\* Bytes: 'a', and the two bytes of the UTF-8 encoding of U+00E9.
Bytes == {97, 195, 169}
ByteStrings == UNION {[1..n -> Bytes] : n \in 0..(MaxSize + 1)}
RECURSIVE IsUtf8(_)
IsUtf8(b) ==
    IF b = <<>> THEN TRUE
    ELSE IF b[1] = 97 THEN IsUtf8(Tail(b))
    ELSE IF b[1] = 195
    THEN Len(b) >= 2 /\ b[2] = 169 /\ IsUtf8(SubSeq(b, 3, Len(b)))
    ELSE FALSE
\* The values of type &str and String: valid UTF-8 by construction.
Strs == {b \in ByteStrings : IsUtf8(b)}
\* String::from_utf8(..).ok()
String_from_utf8(b) == IF IsUtf8(b) THEN Some(b) ELSE None
MaxSizeString(string) == [string |-> string]
\* MaxSizeString::len: the length in bytes.
MaxSizeString_len(m) == Len(m.string)
\* What a constructor hands back: the value, or none with the error if any.
Constructed(m) == [value |-> Some(m), err |-> None]
NotConstructed(err) == [value |-> None, err |-> err]
MaxSizeStringLengthError(actual, expected) == Some([actual |-> actual, expected |-> expected])
from_str_checked(MAX, s) ==
    IF Len(s) > MAX THEN NotConstructed(None)
    ELSE Constructed(MaxSizeString(s))
from_utf8_bytes_checked(MAX, bytes) ==
    IF Len(bytes) > MAX THEN NotConstructed(None)
    ELSE LET s == String_from_utf8(bytes)
         IN  IF s = None THEN NotConstructed(None)
             ELSE Constructed(MaxSizeString(Unwrap(s)))
\* TryFrom<String> and TryFrom<&str>
try_from(MAX, value) ==
    IF Len(value) > MAX
    THEN NotConstructed(MaxSizeStringLengthError(Len(value), MAX))
    ELSE Constructed(MaxSizeString(value))
\* Borsh encoding of a String: its length, then its bytes.
BorshBuffers == {<<n>> \o b : n \in 0..(MaxSize + 1), b \in ByteStrings}
\* #[derive(BorshDeserialize)] (and serde's Deserialize): the field is read as
\* a String and stored; MAX is not looked at.
deserialize(MAX, buf) ==
    LET n == buf[1]
    IN  IF Len(buf) - 1 < n THEN NotConstructed(Some("UnexpectedEof"))
        ELSE LET s == String_from_utf8(SubSeq(buf, 2, n + 1))
             IN  IF s = None THEN NotConstructed(Some("InvalidData"))
                 ELSE Constructed(MaxSizeString(Unwrap(s)))

\* One construction is looked at: its path, MAX, input and outcome are kept.
Construct(op, MAX, input, r) ==
    /\ mss = NoString
    /\ mss' = [op |-> op, max |-> MAX, input |-> input, value |-> r.value]
    /\ UNCHANGED <<scan_vars, other, decoder, codec, orf, builder, shard>>
FromStrChecked ==
    \E MAX \in 0..MaxSize, s \in Strs :
        Construct("from_str_checked", MAX, s, from_str_checked(MAX, s))
FromUtf8BytesChecked ==
    \E MAX \in 0..MaxSize, b \in ByteStrings :
        Construct("from_utf8_bytes_checked", MAX, b, from_utf8_bytes_checked(MAX, b))
TryFromString ==
    \E MAX \in 0..MaxSize, s \in Strs :
        Construct("try_from_string", MAX, s, try_from(MAX, s))
TryFromStr ==
    \E MAX \in 0..MaxSize, s \in Strs :
        Construct("try_from_str", MAX, s, try_from(MAX, s))
Deserialize ==
    \E MAX \in 0..MaxSize, buf \in BorshBuffers :
        Construct("deserialize", MAX, buf, deserialize(MAX, buf))

NextString ==
    \/ FromStrChecked
    \/ FromUtf8BytesChecked
    \/ TryFromString
    \/ TryFromStr
    \/ Deserialize

SpecString == Init /\ [][NextString]_vars

\* ----------------------------------------------------- CovenantTokenDecoder
\* The bytes of a covenant: a token of one byte, the head of a token that
\* takes one more byte, and a byte that is no known code.
ByteCodes == {"filter", "arg", "unknown"}
CovenantBuffers == UNION {[1..n -> ByteCodes] : n \in 0..MaxBufLen}
\* CovenantToken::read_from(buf): Ok(None) at the end of the buffer, else a
\* token or an error; rest is what is left of the buffer.
read_from(buf) ==
    IF buf = <<>> THEN [kind |-> "eof", rest |-> buf]
    ELSE IF buf[1] = "filter" THEN [kind |-> "token", rest |-> Tail(buf)]
    ELSE IF buf[1] = "arg"
    THEN IF Len(buf) >= 2
         THEN [kind |-> "token", rest |-> SubSeq(buf, 3, Len(buf))]
         ELSE [kind |-> "error", rest |-> Tail(buf)]
    ELSE [kind |-> "error", rest |-> Tail(buf)]
\* CovenantTokenDecoder::new
CovenantTokenDecoder_new(buf) ==
    [created |-> TRUE, buf |-> buf, is_complete |-> FALSE, calls |-> <<>>]
\* Mutant of CovenantTokenDecoder_next: an error does not complete the decoder.
NextGoesOnAfterError(d) ==
    IF d.is_complete THEN [item |-> "none", buf |-> d.buf, is_complete |-> TRUE]
    ELSE LET r == read_from(d.buf)
         IN  IF r.kind = "token"
             THEN [item |-> "token", buf |-> r.rest, is_complete |-> FALSE]
             ELSE IF r.kind = "eof"
             THEN [item |-> "none", buf |-> r.rest, is_complete |-> TRUE]
             ELSE [item |-> "error", buf |-> r.rest, is_complete |-> FALSE]
\* Iterator::next: the item yielded, the buffer and the flag afterwards.
CovenantTokenDecoder_next(d) ==
    IF d.is_complete THEN [item |-> "none", buf |-> d.buf, is_complete |-> TRUE]
    ELSE LET r == read_from(d.buf)
         IN  IF r.kind = "token"
             THEN [item |-> "token", buf |-> r.rest, is_complete |-> FALSE]
             ELSE IF r.kind = "eof"
             THEN [item |-> "none", buf |-> r.rest, is_complete |-> TRUE]
             ELSE [item |-> "error", buf |-> r.rest, is_complete |-> TRUE]

DecoderNew ==
    /\ ~decoder.created
    /\ \E buf \in CovenantBuffers : decoder' = CovenantTokenDecoder_new(buf)
    /\ UNCHANGED <<scan_vars, other, mss, codec, orf, builder, shard>>
DecoderNext ==
    /\ decoder.created
    /\ Len(decoder.calls) < MaxCalls
    /\ LET n == CovenantTokenDecoder_next(decoder)
       IN  decoder' = [decoder EXCEPT
                         !.buf = n.buf,
                         !.is_complete = n.is_complete,
                         !.calls = Append(@, [item |-> n.item, before |-> decoder.buf,
                                              after |-> n.buf])]
    /\ UNCHANGED <<scan_vars, other, mss, codec, orf, builder, shard>>

NextDecoder ==
    \/ DecoderNew
    \/ DecoderNext

SpecDecoder == Init /\ [][NextDecoder]_vars

\* -------------------------------------------------- OutputField, OutputFields
\* The variants of OutputField, in declaration order.
OutputFieldVariants ==
    <<"Commitment", "Script", "SenderOffsetPublicKey", "Covenant", "Features",
      "FeaturesOutputType", "FeaturesMaturity", "FeaturesSideChainFeatures",
      "FeaturesRangeProofType", "MinimumValuePromise">>
OutputField == {OutputFieldVariants[i] : i \in 1..Len(OutputFieldVariants)}
\* The discriminants byte_codes::FIELD_* of the #[repr(u8)] enum: u8 constants
\* that are pairwise distinct (the enum does not compile otherwise).
byte_codes ==
    [Commitment |-> 0, Script |-> 1, SenderOffsetPublicKey |-> 2, Covenant |-> 3,
     Features |-> 4, FeaturesOutputType |-> 5, FeaturesMaturity |-> 6,
     FeaturesSideChainFeatures |-> 8, FeaturesRangeProofType |-> 9,
     MinimumValuePromise |-> 10]
\* OutputField::as_byte: self as u8.
as_byte(f) == byte_codes[f]
\* OutputField::from_byte: the variant with that discriminant, if any.
from_byte(byte) ==
    IF \E f \in OutputField : byte_codes[f] = byte
    THEN [ok |-> TRUE, field |-> Some(CHOOSE f \in OutputField : byte_codes[f] = byte),
          err |-> ""]
    ELSE [ok |-> FALSE, field |-> None, err |-> "UnknownByteCode"]
\* OutputFields::NUM_FIELDS
NUM_FIELDS == 10
\* write_varint: little-endian base 128, the high bit set on all but the last byte.
RECURSIVE write_varint(_)
write_varint(n) ==
    IF n < 128 THEN <<n>> ELSE <<128 + (n % 128)>> \o write_varint(n \div 128)
\* The bytes of the varint at the head of buf: up to and including the first
\* byte below 128, or all of buf when there is none.
RECURSIVE VarintBytes(_)
VarintBytes(buf) ==
    IF buf = <<>> THEN <<>>
    ELSE IF buf[1] < 128 THEN <<buf[1]>>
    ELSE <<buf[1]>> \o VarintBytes(Tail(buf))
RECURSIVE VarintValue(_)
VarintValue(bytes) ==
    IF bytes = <<>> THEN 0
    ELSE (bytes[1] % 128) + 128 * VarintValue(Tail(bytes))
\* read_varint::<u16>: at most three bytes are taken; the value is cut to 16
\* bits; the input ending inside the varint is an error.
read_varint_u16(buf) ==
    LET bytes == VarintBytes(buf)
    IN  IF Len(bytes) > 3
        THEN [ok |-> FALSE, val |-> 0, rest |-> SubSeq(buf, 4, Len(buf)),
              err |-> "InvalidData"]
        ELSE IF bytes = <<>> \/ bytes[Len(bytes)] >= 128
        THEN [ok |-> FALSE, val |-> 0, rest |-> <<>>, err |-> "UnexpectedEof"]
        ELSE [ok |-> TRUE, val |-> VarintValue(bytes) % (2 ^ 16),
              rest |-> SubSeq(buf, Len(bytes) + 1, Len(buf)), err |-> ""]
\* Mutant of read_variable_length_bytes: a length equal to max_size is refused.
ReadVariableLengthBytesRefusesMax(buf, max_size) ==
    LET len == read_varint_u16(buf)
    IN  IF ~len.ok THEN [ok |-> FALSE, bytes |-> <<>>, rest |-> len.rest, err |-> len.err]
        ELSE IF len.val >= max_size
        THEN [ok |-> FALSE, bytes |-> <<>>, rest |-> len.rest, err |-> "InvalidInput"]
        ELSE IF Len(len.rest) < len.val
        THEN [ok |-> FALSE, bytes |-> <<>>, rest |-> <<>>, err |-> "UnexpectedEof"]
        ELSE [ok |-> TRUE, bytes |-> SubSeq(len.rest, 1, len.val),
              rest |-> SubSeq(len.rest, len.val + 1, Len(len.rest)), err |-> ""]
\* CovenantReadExt::read_variable_length_bytes
read_variable_length_bytes(buf, max_size) ==
    LET len == read_varint_u16(buf)
    IN  IF ~len.ok THEN [ok |-> FALSE, bytes |-> <<>>, rest |-> len.rest, err |-> len.err]
        ELSE IF len.val > max_size
        THEN [ok |-> FALSE, bytes |-> <<>>, rest |-> len.rest, err |-> "InvalidInput"]
        ELSE IF Len(len.rest) < len.val
        THEN [ok |-> FALSE, bytes |-> <<>>, rest |-> <<>>, err |-> "UnexpectedEof"]
        ELSE [ok |-> TRUE, bytes |-> SubSeq(len.rest, 1, len.val),
              rest |-> SubSeq(len.rest, len.val + 1, Len(len.rest)), err |-> ""]
\* OutputFields::read_from: the bytes read, each turned into a field; the
\* first byte that is no field makes the whole read fail.
OutputFields_read_from(reader) ==
    LET buf == read_variable_length_bytes(reader, NUM_FIELDS)
    IN  IF ~buf.ok THEN [ok |-> FALSE, fields |-> <<>>, bytes |-> buf.rest, err |-> buf.err]
        ELSE IF \E i \in 1..Len(buf.bytes) : ~from_byte(buf.bytes[i]).ok
        THEN [ok |-> FALSE, fields |-> <<>>, bytes |-> buf.rest, err |-> "UnknownByteCode"]
        ELSE [ok |-> TRUE,
              fields |-> [i \in 1..Len(buf.bytes) |-> Unwrap(from_byte(buf.bytes[i]).field)],
              bytes |-> buf.rest, err |-> ""]
\* OutputFields::write_to into an empty Vec: the varint of the length, then one
\* byte per field.
OutputFields_write_to(fields) ==
    LET len == Len(fields)
    IN  IF len > NUM_FIELDS
        THEN [ok |-> FALSE, fields |-> <<>>, bytes |-> <<>>, err |-> "InvalidInput"]
        ELSE [ok |-> TRUE, fields |-> <<>>,
              bytes |-> write_varint(len) \o [i \in 1..len |-> as_byte(fields[i])],
              err |-> ""]

\* The field lists written: every short list over three variants, and lists
\* of NUM_FIELDS - 1 to NUM_FIELDS + 1 fields in two orders.
CodecFields == {"Commitment", "FeaturesSideChainFeatures", "MinimumValuePromise"}
LongFieldLists ==
    UNION {{[i \in 1..n |-> OutputFieldVariants[((i - 1) % NUM_FIELDS) + 1]],
            [i \in 1..n |-> OutputFieldVariants[NUM_FIELDS - ((i - 1) % NUM_FIELDS)]]} :
              n \in (NUM_FIELDS - 1)..(NUM_FIELDS + 1)}
FieldLists ==
    UNION {[1..n -> CodecFields] : n \in 0..MaxFields} \cup LongFieldLists
\* The bytes read: short buffers over a few bytes (lengths, field codes,
\* unknown codes, a varint continuation byte) and long ones that declare
\* NUM_FIELDS or one more.
WireBytes == {0, 1, 7, 10, 11, 139}
WireBuffers ==
    UNION {[1..n -> WireBytes] : n \in 0..MaxWire}
    \cup {<<n>> \o [i \in 1..m |-> 0] :
             n \in {NUM_FIELDS, NUM_FIELDS + 1}, m \in (NUM_FIELDS - 1)..(NUM_FIELDS + 1)}

\* One call is looked at: what it was given and what it returned.
WriteTo ==
    /\ codec = NoCodec
    /\ \E fields \in FieldLists :
          codec' = [op |-> "write_to", fields |-> fields, buf |-> <<>>, byte |-> 0,
                    result |-> Some(OutputFields_write_to(fields))]
    /\ UNCHANGED <<scan_vars, other, mss, decoder, orf, builder, shard>>
ReadFrom ==
    /\ codec = NoCodec
    /\ \E buf \in WireBuffers :
          codec' = [op |-> "read_from", fields |-> <<>>, buf |-> buf, byte |-> 0,
                    result |-> Some(OutputFields_read_from(buf))]
    /\ UNCHANGED <<scan_vars, other, mss, decoder, orf, builder, shard>>
FromByte ==
    /\ codec = NoCodec
    /\ \E byte \in 0..255 :
          LET r == from_byte(byte)
          IN  codec' = [op |-> "from_byte", fields |-> <<>>, buf |-> <<>>, byte |-> byte,
                        result |-> Some([ok |-> r.ok,
                                         fields |-> IF r.ok THEN <<Unwrap(r.field)>> ELSE <<>>,
                                         bytes |-> <<>>, err |-> r.err])]
    /\ UNCHANGED <<scan_vars, other, mss, decoder, orf, builder, shard>>

NextCodec ==
    \/ WriteTo
    \/ ReadFrom
    \/ FromByte

SpecCodec == Init /\ [][NextCodec]_vars

\* ------------------------------------------------------------------ OrFilter
\* Covenant tokens: filters, and arguments with their value (a hash, the byte
\* of an output field, an integer).
FilterToken(name) == [kind |-> "filter", name |-> name, v |-> 0]
ArgToken(name, v) == [kind |-> "arg", name |-> name, v |-> v]
CovenantTokens ==
    {FilterToken("or"), FilterToken("output_hash_eq"), FilterToken("field_eq"),
     ArgToken("Hash", 1), ArgToken("Hash", 3),
     ArgToken("OutputField", as_byte("FeaturesMaturity")), ArgToken("Uint", 0)}
\* The outputs of the transaction a covenant is run against; an OutputSet is
\* a set of their indices.
CovenantOutput(i) == [hash |-> i, maturity |-> i % 2]
CovenantOutputs == [i \in 1..3 |-> CovenantOutput(i)]
OutputSets == SUBSET (1..Len(CovenantOutputs))
\* What a filter leaves behind: the tokens not consumed and the caller's set.
FilterOk(tokens, output_set) ==
    [ok |-> TRUE, err |-> "", tokens |-> tokens, output_set |-> output_set]
FilterErr(err, tokens, output_set) ==
    [ok |-> FALSE, err |-> err, tokens |-> tokens, output_set |-> output_set]
\* CovenantContext::require_next_filter and next_arg: the next token is taken.
require_next_filter(tokens) ==
    IF tokens = <<>> THEN [ok |-> FALSE, err |-> "UnexpectedEndOfTokens", rest |-> tokens]
    ELSE IF tokens[1].kind # "filter"
    THEN [ok |-> FALSE, err |-> "ExpectedFilterButGotArg", rest |-> Tail(tokens)]
    ELSE [ok |-> TRUE, err |-> "", rest |-> Tail(tokens)]
next_arg(tokens) ==
    IF tokens = <<>> THEN [ok |-> FALSE, err |-> "UnexpectedEndOfTokens", rest |-> tokens]
    ELSE IF tokens[1].kind # "arg"
    THEN [ok |-> FALSE, err |-> "ExpectedArgButGotFilter", rest |-> Tail(tokens)]
    ELSE [ok |-> TRUE, err |-> "", rest |-> Tail(tokens)]
\* OutputHashEqFilter::filter
OutputHashEqFilter(tokens, output_set) ==
    LET hash == next_arg(tokens)
    IN  IF ~hash.ok THEN FilterErr(hash.err, hash.rest, output_set)
        ELSE IF tokens[1].name # "Hash"
        THEN FilterErr("UnexpectedArgument", hash.rest, output_set)
        ELSE FilterOk(hash.rest,
                      {i \in output_set : CovenantOutputs[i].hash = tokens[1].v})
\* FieldEqFilter::filter on the maturity field: an integer is compared, any
\* other argument is invalid as soon as there is an output to compare with.
FieldEqFilter(tokens, output_set) ==
    LET field == next_arg(tokens)
        arg == next_arg(field.rest)
    IN  IF ~field.ok THEN FilterErr(field.err, field.rest, output_set)
        ELSE IF tokens[1].name # "OutputField"
        THEN FilterErr("UnexpectedArgument", field.rest, output_set)
        ELSE IF ~arg.ok THEN FilterErr(arg.err, arg.rest, output_set)
        ELSE IF tokens[2].name = "Uint"
        THEN FilterOk(arg.rest,
                      {i \in output_set : CovenantOutputs[i].maturity = tokens[2].v})
        ELSE IF output_set = {} THEN FilterOk(arg.rest, output_set)
        ELSE FilterErr("InvalidArgument", arg.rest, {})
\* Mutant of OrFilter: the second filter is run on what the first one left.
RECURSIVE OrFilterChains(_, _)
OrFilterChains(tokens, output_set) ==
    LET a == require_next_filter(tokens)
        Run(name, ts, set) ==
            CASE name = "or" -> OrFilterChains(ts, set)
              [] name = "output_hash_eq" -> OutputHashEqFilter(ts, set)
              [] OTHER -> FieldEqFilter(ts, set)
    IN  IF ~a.ok THEN FilterErr(a.err, a.rest, output_set)
        ELSE LET ra == Run(tokens[1].name, a.rest, output_set)
                 b == require_next_filter(ra.tokens)
             IN  IF ~ra.ok THEN FilterErr(ra.err, ra.tokens, output_set)
                 ELSE IF ~b.ok THEN FilterErr(b.err, b.rest, output_set)
                 ELSE LET rb == Run(ra.tokens[1].name, b.rest, ra.output_set)
                      IN  IF ~rb.ok THEN FilterErr(rb.err, rb.tokens, output_set)
                          ELSE FilterOk(rb.tokens, ra.output_set \cup rb.output_set)
\* OrFilter::filter: each sub-filter runs on its own clone of the output set;
\* the caller's set is written only at the end.
RECURSIVE OrFilter(_, _)
Filter_filter(name, tokens, output_set) ==
    CASE name = "or" -> OrFilter(tokens, output_set)
      [] name = "output_hash_eq" -> OutputHashEqFilter(tokens, output_set)
      [] OTHER -> FieldEqFilter(tokens, output_set)
OrFilter(tokens, output_set) ==
    LET a == require_next_filter(tokens)
    IN  IF ~a.ok THEN FilterErr(a.err, a.rest, output_set)
        ELSE LET ra == Filter_filter(tokens[1].name, a.rest, output_set)
                 b == require_next_filter(ra.tokens)
             IN  IF ~ra.ok THEN FilterErr(ra.err, ra.tokens, output_set)
                 ELSE IF ~b.ok THEN FilterErr(b.err, b.rest, output_set)
                 ELSE LET rb == Filter_filter(ra.tokens[1].name, b.rest, output_set)
                      IN  IF ~rb.ok THEN FilterErr(rb.err, rb.tokens, output_set)
                          ELSE FilterOk(rb.tokens, ra.output_set \cup rb.output_set)

\* The contexts an OrFilter is run in: every token sequence of up to MaxTokens
\* tokens, and longer ones with a two-argument or a nested first sub-filter.
LongContexts ==
    LET or == FilterToken("or")
        hash_eq == FilterToken("output_hash_eq")
        field_eq == FilterToken("field_eq")
        maturity == ArgToken("OutputField", as_byte("FeaturesMaturity"))
    IN  {<<field_eq, maturity, ArgToken("Uint", 0), hash_eq, ArgToken("Hash", 3)>>,
         <<field_eq, maturity, ArgToken("Hash", 1), hash_eq, ArgToken("Hash", 3)>>,
         <<hash_eq, ArgToken("Hash", 3), field_eq, maturity, ArgToken("Hash", 1)>>,
         <<or, hash_eq, ArgToken("Hash", 1), hash_eq, ArgToken("Hash", 3),
           field_eq, maturity, ArgToken("Uint", 0)>>,
         <<hash_eq, ArgToken("Hash", 1), or, hash_eq, ArgToken("Hash", 3),
           field_eq, maturity, ArgToken("Uint", 0), ArgToken("Hash", 1)>>}
Contexts == UNION {[1..n -> CovenantTokens] : n \in 0..MaxTokens} \cup LongContexts

\* One call of OrFilter::filter: the context and set given, and what it left.
OrFilterCall ==
    /\ orf = NoOrFilter
    /\ \E tokens \in Contexts, output_set \in OutputSets :
          orf' = [op |-> "filter", tokens |-> tokens, output_set |-> output_set,
                  result |-> Some(OrFilter(tokens, output_set))]
    /\ UNCHANGED <<scan_vars, other, mss, decoder, codec, builder, shard>>

NextOrFilter == OrFilterCall

SpecOrFilter == Init /\ [][NextOrFilter]_vars

\* ------------------------------------------------------- WalletOutputBuilder
\* WalletOutputBuilder::new; value and spending_key_id are fixed at creation
\* and have no setter.
WalletOutputBuilder_new ==
    [version |-> 0, features |-> 0, script |-> None, covenant |-> 0,
     input_data |-> None, script_key_id |-> None, sender_offset_public_key |-> None,
     metadata_signature |-> None, metadata_signed_by_receiver |-> FALSE,
     metadata_signed_by_sender |-> FALSE, encrypted_data |-> 0,
     minimum_value_promise |-> 0]
with_sender_offset_public_key(b, sender_offset_public_key) ==
    [b EXCEPT !.sender_offset_public_key = Some(sender_offset_public_key)]
with_features(b, features) == [b EXCEPT !.features = features]
\* Mutant of with_script: changing the script drops the signature flags.
WithScriptUnsigns(b, script) ==
    [b EXCEPT !.script = Some(script), !.metadata_signed_by_receiver = FALSE,
              !.metadata_signed_by_sender = FALSE]
with_script(b, script) == [b EXCEPT !.script = Some(script)]
with_input_data(b, input_data) == [b EXCEPT !.input_data = Some(input_data)]
with_covenant(b, covenant) == [b EXCEPT !.covenant = covenant]
with_script_key(b, script_key_id) == [b EXCEPT !.script_key_id = Some(script_key_id)]
with_version(b, version) == [b EXCEPT !.version = version]
with_minimum_value_promise(b, minimum_value_promise) ==
    [b EXCEPT !.minimum_value_promise = minimum_value_promise]
\* What a fallible operation returns: the builder (or the output built), or
\* an error; err is "BuilderError" or the key manager's error.
BuilderOk(b) == [ok |-> TRUE, b |-> Some(b), err |-> "", msg |-> ""]
BuilderErr(err, msg) == [ok |-> FALSE, b |-> None, err |-> err, msg |-> msg]
\* encrypt_data_for_recovery: the key manager may fail.
encrypt_data_for_recovery(b, key_manager_fails) ==
    IF key_manager_fails THEN BuilderErr("KeyManagerError", "")
    ELSE BuilderOk([b EXCEPT !.encrypted_data = 1])
\* sign_as_sender_and_receiver
sign_as_sender_and_receiver(b, key_manager_fails) ==
    IF b.script = None
    THEN BuilderErr("BuilderError", "Cannot sign metadata without a script")
    ELSE IF key_manager_fails THEN BuilderErr("KeyManagerError", "")
    ELSE BuilderOk([b EXCEPT !.metadata_signature = Some("signature"),
                             !.metadata_signed_by_receiver = TRUE,
                             !.metadata_signed_by_sender = TRUE,
                             !.sender_offset_public_key = Some("from_key_id")])
\* try_build: the checks in the order the code makes them; WalletOutput::new
\* may fail in the key manager.
try_build(b, key_manager_fails) ==
    IF ~b.metadata_signed_by_receiver
    THEN BuilderErr("BuilderError",
             "Cannot build output because it has not been signed by the receiver")
    ELSE IF ~b.metadata_signed_by_sender
    THEN BuilderErr("BuilderError",
             "Cannot build output because it has not been signed by the sender")
    ELSE IF b.script = None THEN BuilderErr("BuilderError", "script must be set")
    ELSE IF b.input_data = None THEN BuilderErr("BuilderError", "input_data must be set")
    ELSE IF b.script_key_id = None
    THEN BuilderErr("BuilderError", "script_private_key must be set")
    ELSE IF b.sender_offset_public_key = None
    THEN BuilderErr("BuilderError", "sender_offset_public_key must be set")
    ELSE IF b.metadata_signature = None
    THEN BuilderErr("BuilderError", "metadata_signature must be set")
    ELSE IF key_manager_fails THEN BuilderErr("KeyManagerError", "")
    ELSE BuilderOk(b)

\* An operation was applied to the builder: b is the builder afterwards (the
\* caller keeps a clone when the operation fails or builds), last what the
\* operation returned; signed and modified record the history: a signing has
\* succeeded, and a setter has run since.
Applied(op, r, b) ==
    /\ builder.created
    /\ builder' = [created |-> TRUE, b |-> b,
                   last |-> [op |-> op, ok |-> r.ok, err |-> r.err, msg |-> r.msg],
                   signed |-> builder.signed \/ (op = "sign_as_sender_and_receiver" /\ r.ok),
                   modified |-> IF op = "sign_as_sender_and_receiver" /\ r.ok THEN FALSE
                                ELSE builder.modified
                                     \/ (builder.signed /\ r.ok /\ op # "try_build")]
    /\ UNCHANGED <<scan_vars, other, mss, decoder, codec, orf, shard>>
Set(op, b) == Applied(op, BuilderOk(b), b)
Fallible(op, r) == Applied(op, r, IF r.ok THEN Unwrap(r.b) ELSE builder.b)
New ==
    /\ ~builder.created
    /\ builder' = [builder EXCEPT !.created = TRUE, !.b = WalletOutputBuilder_new]
    /\ UNCHANGED <<scan_vars, other, mss, decoder, codec, orf, shard>>
WithSenderOffsetPublicKey ==
    Set("with_sender_offset_public_key", with_sender_offset_public_key(builder.b, "given"))
WithFeatures == Set("with_features", with_features(builder.b, 1))
WithScript == \E script \in {1, 2} : Set("with_script", with_script(builder.b, script))
WithInputData == Set("with_input_data", with_input_data(builder.b, 1))
WithCovenant == Set("with_covenant", with_covenant(builder.b, 1))
EncryptDataForRecovery ==
    \E f \in BOOLEAN :
        Fallible("encrypt_data_for_recovery", encrypt_data_for_recovery(builder.b, f))
WithScriptKey == Set("with_script_key", with_script_key(builder.b, 1))
WithVersion == Set("with_version", with_version(builder.b, 1))
WithMinimumValuePromise ==
    Set("with_minimum_value_promise", with_minimum_value_promise(builder.b, 1))
SignAsSenderAndReceiver ==
    \E f \in BOOLEAN :
        Fallible("sign_as_sender_and_receiver", sign_as_sender_and_receiver(builder.b, f))
TryBuild == \E f \in BOOLEAN : Fallible("try_build", try_build(builder.b, f))

NextBuilder ==
    \/ New
    \/ WithSenderOffsetPublicKey
    \/ WithFeatures
    \/ WithScript
    \/ WithInputData
    \/ WithCovenant
    \/ EncryptDataForRecovery
    \/ WithScriptKey
    \/ WithVersion
    \/ WithMinimumValuePromise
    \/ SignAsSenderAndReceiver
    \/ TryBuild

SpecBuilder == Init /\ [][NextBuilder]_vars

\* ------------------------------------------------- ValidatorNodeRegistration
\* A U256 is written by its 32 base-256 digits, the least significant first.
U256Digits == 32
\* Mutant of U256_from_big_endian: the first byte is taken as the least
\* significant digit.
FromLittleEndian(bytes) == bytes
\* U256::from_big_endian: the first byte is the most significant digit.
U256_from_big_endian(bytes) == [i \in 1..U256Digits |-> bytes[U256Digits + 1 - i]]
\* U256::from(u64): the eight bytes of the u64, then zeros.
U256_from_u64(digits) == [i \in 1..U256Digits |-> IF i <= 8 THEN digits[i] ELSE 0]
\* The carry into digit i of a + b.
RECURSIVE Carry(_, _, _)
Carry(a, b, i) == IF i = 1 THEN 0 ELSE (a[i - 1] + b[i - 1] + Carry(a, b, i - 1)) \div 256
\* U256 + U256: panics on overflow.
U256Add(a, b) ==
    [overflow |-> Carry(a, b, U256Digits + 1) > 0,
     val |-> [i \in 1..U256Digits |-> (a[i] + b[i] + Carry(a, b, i)) % 256]]
\* The value of the low digits of a number known to be small.
SmallValue(a) == a[1] + 256 * a[2] + 256 * 256 * a[3]
IsZero(a) == \A i \in 1..Len(a) : a[i] = 0
\* a % m for a small divisor m, digit by digit from the most significant.
RECURSIVE RemFrom(_, _, _)
RemFrom(a, m, i) ==
    IF i > Len(a) THEN 0 ELSE (RemFrom(a, m, i + 1) * 256 + a[i]) % m
\* U256 % U256: panics when the divisor is zero.
U256Rem(a, b) ==
    IF IsZero(b) THEN [div_by_zero |-> TRUE, val |-> 0]
    ELSE [div_by_zero |-> FALSE, val |-> RemFrom(a, SmallValue(b), 1)]
\* does_require_new_shard_key: (pk + epoch) % interval == 0, or a panic.
does_require_new_shard_key(public_key, epoch, interval) ==
    LET pk == U256_from_big_endian(public_key)
        sum == U256Add(pk, U256_from_u64(epoch))
        rem == U256Rem(sum.val, U256_from_u64(interval))
    IN  IF sum.overflow THEN [panic |-> "arithmetic operation overflow", val |-> FALSE]
        ELSE IF rem.div_by_zero THEN [panic |-> "division by zero", val |-> FALSE]
        ELSE [panic |-> "", val |-> rem.val = 0]
\* generate_shard_key: the domain-separated hash of the key and the entropy.
generate_shard_key(public_key, entropy) ==
    [shard_key_of |-> public_key, entropy |-> entropy]
\* ValidatorNodeRegistration::derive_shard_key
derive_shard_key(public_key, prev_shard_key, epoch, interval, block_hash) ==
    IF prev_shard_key = None
    THEN [panic |-> "", key |-> Some(generate_shard_key(public_key, block_hash))]
    ELSE LET new == does_require_new_shard_key(public_key, epoch, interval)
         IN  IF new.panic # "" THEN [panic |-> new.panic, key |-> None]
             ELSE IF new.val
             THEN [panic |-> "", key |-> Some(generate_shard_key(public_key, block_hash))]
             ELSE [panic |-> "", key |-> prev_shard_key]

\* Canonical public keys: 32 bytes, the first even and the last below 128;
\* here the first, the last and the bytes between them are varied.
KeyBytes(first, fill, last) ==
    [i \in 1..U256Digits |-> IF i = 1 THEN first ELSE IF i = U256Digits THEN last ELSE fill]
ShardPublicKeys ==
    {KeyBytes(first, fill, last) : first \in {0, 254}, fill \in {0, 255}, last \in 0..MaxLastByte}
\* A u64 by its eight bytes, the least significant first.
U64Bytes(n) == [i \in 1..8 |-> IF i = 1 THEN n % 256 ELSE IF i = 2 THEN n \div 256 ELSE 0]
Epochs == {U64Bytes(n) : n \in 0..MaxEpoch} \cup {[i \in 1..8 |-> 255]}
Intervals == {U64Bytes(n) : n \in 0..MaxInterval}
PrevShardKeys == {None, Some([shard_key_of |-> "earlier", entropy |-> 0])}

\* One call of derive_shard_key: its arguments and what it returned.
DeriveShardKey ==
    /\ shard = NoShard
    /\ \E public_key \in ShardPublicKeys, prev \in PrevShardKeys, epoch \in Epochs,
          interval \in Intervals, block_hash \in {1, 2} :
          shard' = [op |-> "derive_shard_key", public_key |-> public_key,
                    prev_shard_key |-> prev, epoch |-> epoch, interval |-> interval,
                    block_hash |-> block_hash,
                    result |-> Some(derive_shard_key(public_key, prev, epoch, interval,
                                                     block_hash))]
    /\ UNCHANGED <<scan_vars, other, mss, decoder, codec, orf, builder>>

NextShard == DeriveShardKey

SpecShard == Init /\ [][NextShard]_vars

\* ------------------------------------------------ the entry points as functions
\* scan_output_for_one_sided_payment(val) with primitives that do not fail
\* internally: the JsValue returned, or ok = FALSE when the call aborts.
scan_output_for_one_sided_payment(v) ==
    IF ~v.valid THEN scan_error(Message("scan_output", "invalid value"))
    ELSE LET scan_output == Unwrap(v.enc)
             m == MatchScript(scan_output)
         IN  IF m.status = "panic" THEN [ok |-> FALSE, js |-> None]
             ELSE IF m.status # "matched" THEN no_match
             ELSE LET d == DecryptOutput(scan_output.output, Unwrap(m.shared_secret), "none")
                  IN  IF d.status = "error" THEN scan_error(d.error)
                      ELSE IF d.status # "decrypted" THEN no_match
                      ELSE VerifyOutcome(scan_output.output, Unwrap(d.committed_value),
                               Unwrap(d.spending_key), "none",
                               VerifiedResult(scan_output.output, Unwrap(m.output_source),
                                              Unwrap(m.script_private_key),
                                              Unwrap(d.committed_value),
                                              Unwrap(d.spending_key)))
\* scan_output_for_one_sided_payment_ledger(wallet_view_sk, wallet_spend_pk, output)
scan_output_for_one_sided_payment_ledger(a) ==
    LET p == ParseLedgerArgs(a)
    IN  IF ~p.ok THEN scan_error(p.error)
        ELSE LET output == Unwrap(a.output.enc)
                 m == MatchScriptLedger(Unwrap(a.wallet_view_sk.enc),
                                        Unwrap(a.wallet_spend_pk.enc), output)
             IN  IF m.status # "matched" THEN no_match
                 ELSE LET d == DecryptOutput(output, Unwrap(m.shared_secret), "none")
                      IN  IF d.status = "error" THEN scan_error(d.error)
                          ELSE IF d.status # "decrypted" THEN no_match
                          ELSE VerifyOutcome(output, Unwrap(d.committed_value),
                                   Unwrap(d.spending_key), "none",
                                   VerifiedResultLedger(output, Unwrap(m.output_source),
                                                        Unwrap(d.committed_value),
                                                        Unwrap(d.spending_key)))

\* ------------------------------------------------------- reading the state
\* The three shapes of a RecoveredOutputResult (spec.md section 3).
IsSuccess(r) ==
    /\ IsSome(r.hash) /\ IsSome(r.output_source) /\ IsSome(r.output_type)
    /\ IsSome(r.value) /\ IsSome(r.spending_key)
    /\ r.error = None
IsError(r) ==
    /\ IsSome(r.error)
    /\ r.hash = None /\ r.output_source = None /\ r.output_type = None
    /\ r.value = None /\ r.spending_key = None /\ r.script_key = None
    /\ r.maturity = None
IsNoMatch(r) ==
    /\ r.hash = None /\ r.output_source = None /\ r.output_type = None
    /\ r.value = None /\ r.spending_key = None /\ r.script_key = None
    /\ r.maturity = None /\ r.error = None
Returned == pc = "done"
Ended == pc \in {"done", "panicked"}
Did(op) == \E i \in 1..Len(log) : log[i] = op
\* The output under scan, once the arguments were decoded.
Decoded ==
    IF entry = "wallet" THEN IsSome(loc.scan_output) ELSE IsSome(loc.output)
TheOutput ==
    IF entry = "wallet" THEN Unwrap(loc.scan_output).output ELSE Unwrap(loc.output)
\* The arguments could not be decoded.
MalformedInput ==
    \/ entry = "wallet" /\ ~Unwrap(val).valid
    \/ entry = "ledger" /\ (\/ ~Unwrap(args).wallet_view_sk.valid
                            \/ ~Unwrap(args).wallet_spend_pk.valid
                            \/ ~Unwrap(args).output.valid)
\* The private scalars the caller supplied.
ScanKeys ==
    IF entry = "wallet"
    THEN {Unwrap(loc.scan_output).wallet_sk}
         \cup {Unwrap(loc.scan_output).known_script_keys[i] :
                 i \in 1..Len(Unwrap(loc.scan_output).known_script_keys)}
    ELSE {Unwrap(loc.wallet_view_sk), Unwrap(loc.wallet_spend_pk).pt}
\* The key atoms a scalar is built from, hash inputs included.
AtomsOf(sc) ==
    sc.atoms \cup UNION {UNION {x.atoms : x \in h.stealth} : h \in sc.hashes}
\* The key atoms behind the public keys a script embeds.
ScriptAtoms(script) ==
    UNION {AtomsOf(Unwrap(script[i].pk).pt) :
             i \in {j \in 1..Len(script) : script[j].op = "PushPubKey"}}
\* The encryption key the scan derived from its shared secret.
DerivedKey ==
    Unwrap(shared_secret_to_output_encryption_key(Unwrap(loc.shared_secret), "none").val)
\* Decryption of the output's payload under the derived key succeeds.
Decrypts ==
    decrypt_data(DerivedKey, TheOutput.commitment, TheOutput.encrypted_data, "none").ok

\* ------------------------------------------------------------------ claims
R == Unwrap(result)
ShapesOf(r) ==
    {s \in {"success", "error", "no_match"} :
        CASE s = "success" -> IsSuccess(r)
          [] s = "error" -> IsError(r)
          [] OTHER -> IsNoMatch(r)}

\* C1: every result either entry point returns is in exactly one of the three
\* states success (hash, output_source, output_type, value, spending_key
\* present, error absent), error (only error present) and no-match (every
\* field absent); nothing is handed back before the scan returns.
C1_ResultTrichotomy ==
    /\ Returned => IsSome(result) /\ Cardinality(ShapesOf(R)) = 1
    /\ ~Returned => result = None
\* A full-wallet scan has returned a success record.
C1_Witness == Returned /\ entry = "wallet" /\ IsSuccess(R) /\ IsSome(R.script_key)

\* What the error messages of the scans are made of: fixed texts and the
\* primitives' error values, never an argument or a local of the scan.
PublicMessages ==
    {Message(c, e) :
        c \in {"scan_output", "wallet_sk", "", "Could not derive encryption key",
               "Could not verify output"},
        e \in {"invalid value", "HexError", "borsh error", "KeyManagerServiceError",
               "RangeProofError"}}
\* C2: a result that is not a success carries no key material: spending_key,
\* script_key and every other recovered field are absent, and its error
\* message, if any, is built from public texts only.
C2_NoSecretsOutsideSuccess ==
    Returned /\ ~IsSuccess(R) =>
        /\ R.spending_key = None /\ R.script_key = None
        /\ R.value = None /\ R.hash = None /\ R.maturity = None
        /\ IsSome(R.error) => Unwrap(R.error) \in PublicMessages
\* An error is returned while the scan holds a decrypted value, a blinding
\* factor, a script private key and a shared secret.
C2_Witness ==
    /\ Returned /\ IsError(R)
    /\ IsSome(loc.committed_value) /\ IsSome(loc.spending_key)
    /\ IsSome(loc.script_private_key) /\ IsSome(loc.shared_secret)

\* An output as a sender builds it: the commitment to (v, k), and (v, k)
\* encrypted under the key derived from DH(sender offset key, recipient key).
SenderPayload(output, o, recipient_pk) ==
    /\ output.sender_offset_public_key = from_secret_key(o)
    /\ output.encrypted_data =
           Encrypt(Unwrap(shared_secret_to_output_encryption_key(
                       CommsDHKE_new(o, recipient_pk), "none").val),
                   output.commitment, output.commitment.v, output.commitment.k)
\* Pattern A for the script key pair of script_pk.
BuiltPlain(output, script_pk) ==
    /\ output.script = <<PushPubKey(script_pk)>>
    /\ \E o \in PrivateKeys : SenderPayload(output, o, script_pk)
\* Pattern B for the wallet with view key view_pk and spend key spend_pk.
BuiltStealth(output, view_pk, spend_pk) ==
    /\ \E n \in PrivateKeys :
          output.script = <<PushPubKey(from_secret_key(n)), Drop,
                            PushPubKey(SenderStealthKey(n, view_pk, spend_pk))>>
    /\ \E o \in PrivateKeys : SenderPayload(output, o, view_pk)
\* The output under scan was built for the key material the caller supplied.
BuiltForCaller ==
    /\ Decoded
    /\ IF entry = "wallet"
       THEN LET so == Unwrap(loc.scan_output)
            IN  \/ \E i \in 1..Len(so.known_script_keys) :
                      BuiltPlain(so.output, from_secret_key(so.known_script_keys[i]))
                \/ BuiltStealth(so.output, from_secret_key(so.wallet_sk),
                                from_secret_key(so.wallet_sk))
       ELSE BuiltStealth(Unwrap(loc.output),
                         from_secret_key(Unwrap(loc.wallet_view_sk)),
                         Unwrap(loc.wallet_spend_pk))
\* The scan recovered the committed value and blinding factor.
Recovered ==
    /\ Returned /\ IsSuccess(R)
    /\ R.value = Some(TheOutput.commitment.v)
    /\ R.spending_key = Some(to_hex(TheOutput.commitment.k))

\* C3: an output built by a sender for the caller's key material (Pattern A
\* with a known script key, Pattern B with the wallet's view and spend keys)
\* scans as a success whose value and spending key are the committed value and
\* blinding factor, whatever the value.
C3_RoundTrip == Ended /\ BuiltForCaller => Recovered
\* The same round trip for outputs whose numbers fit a JS safe integer.
RoundTripOfSafeIntegers ==
    /\ Ended /\ BuiltForCaller
    /\ U64Leq(TheOutput.commitment.v, MAX_SAFE_INTEGER)
    /\ entry = "ledger" => U64Leq(TheOutput.features.maturity, MAX_SAFE_INTEGER)
    => Recovered

\* None of the private scalars the caller supplied occurs in a key the
\* output's script embeds.
ForeignKeys ==
    UNION {AtomsOf(k) : k \in ScanKeys} \cap ScriptAtoms(TheOutput.script) = {}

\* C4: a well-formed output scanned with key material that was not used to
\* build the keys of its script always ends in NoMatch: no error, no success,
\* no abort.
C4_ForeignKeysNoMatch ==
    Ended /\ Decoded /\ ForeignKeys => Returned /\ IsNoMatch(R)
\* A stealth output for another wallet was compared and rejected, although its
\* payload is encrypted to the caller's key.
C4_Witness ==
    /\ Returned /\ Decoded /\ ForeignKeys
    /\ IsPatternB(TheOutput.script) /\ Did("stealth_spending_key")
    /\ \E k \in ScanKeys : SenderPayload(TheOutput, TheOutput.sender_offset_public_key.pt,
                                          from_secret_key(k))
    /\ IsNoMatch(R)

\* The decrypted payload opens the output's commitment.
DecryptedOpens ==
    TheOutput.commitment
        = Commit(Unwrap(loc.committed_value), Unwrap(loc.spending_key))

\* C5: a success is returned only after verify_mask ran on the decrypted value
\* and blinding factor and they open the output's commitment; when decryption
\* succeeded and they do not open it, the result is NoMatch with every field
\* absent.
C5_SuccessOnlyWhenCommitmentOpens ==
    /\ Returned /\ IsSuccess(R) =>
          /\ IsSome(loc.committed_value) /\ Did("verify_mask") /\ DecryptedOpens
          /\ R.value = loc.committed_value
    /\ Ended /\ IsSome(loc.committed_value) /\ ~DecryptedOpens =>
          Returned /\ IsNoMatch(R)
\* The payload decrypted, does not open the commitment, and NoMatch came back.
C5_Witness ==
    /\ Returned /\ IsSome(loc.committed_value) /\ ~DecryptedOpens
    /\ Did("verify_mask") /\ IsNoMatch(R)

\* C6: when the authenticated decryption of the payload under the derived key
\* fails, the scan returns NoMatch, never an error, and verify_mask is not
\* attempted.
C6_DecryptFailureIsNoMatch ==
    Decoded /\ IsSome(loc.shared_secret) /\ Did("decrypt_data") /\ ~Decrypts =>
        Returned /\ IsNoMatch(R) /\ ~Did("verify_mask")
\* A ledger scan matched the stealth key, could not decrypt, and returned NoMatch.
C6_Witness ==
    /\ entry = "ledger" /\ Returned /\ IsSome(loc.shared_secret)
    /\ Did("decrypt_data") /\ ~Decrypts /\ IsNoMatch(R)

\* The two recognised script shapes, read off the opcodes.
Kinds(script) == [i \in 1..Len(script) |-> script[i].op]
ShapeA(script) == Kinds(script) = <<"PushPubKey">>
ShapeB(script) == Kinds(script) = <<"PushPubKey", "Drop", "PushPubKey">>
\* The script's key is the public key of one of the supplied known script keys.
KnownScriptKey ==
    LET so == Unwrap(loc.scan_output)
    IN  \E i \in 1..Len(so.known_script_keys) :
            from_secret_key(so.known_script_keys[i]) = Unwrap(so.output.script[1].pk)

\* C7: in the full-wallet scan a Pattern A script is matched as OneSided if
\* and only if its key is the public key of one of the known script private
\* keys; when none is (the empty list included) the scan returns NoMatch
\* without a shared secret, a key derivation or a decryption.
C7_PlainMatchIffKnownKey ==
    entry = "wallet" /\ Did("match_script") /\ ShapeA(TheOutput.script) =>
        /\ KnownScriptKey <=> loc.output_source = Some("OneSided")
        /\ ~KnownScriptKey =>
              /\ Returned /\ IsNoMatch(R)
              /\ dh_calls = <<>> /\ loc.shared_secret = None
              /\ ~Did("dh") /\ ~Did("kdf") /\ ~Did("decrypt_data")
\* The script's key belongs to the second known key, not the first, and matched.
C7_Witness ==
    /\ entry = "wallet" /\ Did("match_script") /\ ShapeA(TheOutput.script)
    /\ Len(Unwrap(loc.scan_output).known_script_keys) = 2
    /\ from_secret_key(Unwrap(loc.scan_output).known_script_keys[1])
           # Unwrap(TheOutput.script[1].pk)
    /\ loc.output_source = Some("OneSided")

\* C8: a decoded script of neither shape (empty, truncated, extended, or of
\* the right length with other opcodes) makes both entry points return NoMatch.
C8_OtherShapesNoMatch ==
    Did("match_script") /\ ~ShapeA(TheOutput.script) /\ ~ShapeB(TheOutput.script) =>
        Returned /\ IsNoMatch(R) /\ dh_calls = <<>>
\* A three-opcode script that is not push, drop, push came back as NoMatch.
C8_Witness ==
    /\ Did("match_script") /\ Len(TheOutput.script) = 3 /\ ~ShapeB(TheOutput.script)
    /\ Returned /\ IsNoMatch(R)

C10_MalformedInputIsError ==
    Ended /\ MalformedInput =>
        /\ Returned /\ IsError(R)
        /\ loc = NoLocals /\ dh_calls = <<>>
        /\ \A op \in {"match_script", "find_known_key", "stealth_hasher",
                      "stealth_spending_key", "from_uniform_bytes", "dh", "kdf",
                      "decrypt_data", "verify_mask"} : ~Did(op)
\* A ledger scan was given a valid view key and an undecodable spend key.
C10_Witness ==
    /\ Returned /\ entry = "ledger" /\ IsError(R)
    /\ Unwrap(args).wallet_view_sk.valid /\ ~Unwrap(args).wallet_spend_pk.valid

\* The ways a scan step can fail (spec.md section 4.2, failure semantics).
PrimitiveFailed == Did("primitive_failed")
DecryptionFailedInternally ==
    \E i \in 1..(Len(log) - 1) : log[i] = "decrypt_data" /\ log[i + 1] = "primitive_failed"
StealthKeyMismatch == Did("stealth_spending_key") /\ ~Did("dh")
AuthenticationFailure == Did("decrypt_data") /\ ~PrimitiveFailed /\ ~Decrypts
CommitmentMismatch == Did("verify_mask") /\ ~PrimitiveFailed /\ ~DecryptedOpens

\* C11: a scan in which a primitive failed for a reason other than a key
\* mismatch ends in an Error result, and a scan that met a key mismatch (stealth
\* key comparison, authentication of the payload, commitment check) ends in
\* NoMatch.
C11_FailureClassification ==
    Ended =>
        /\ PrimitiveFailed => Returned /\ IsError(R)
        /\ StealthKeyMismatch \/ AuthenticationFailure \/ CommitmentMismatch =>
              Returned /\ IsNoMatch(R)
\* The classification the code does make: every failure but an internal one of
\* decrypt_data is reported as the claim says.
ClassificationOutsideDecryption ==
    Ended =>
        /\ PrimitiveFailed /\ ~DecryptionFailedInternally => Returned /\ IsError(R)
        /\ DecryptionFailedInternally => Returned /\ IsNoMatch(R)
        /\ StealthKeyMismatch \/ AuthenticationFailure \/ CommitmentMismatch =>
              Returned /\ IsNoMatch(R)

\* C12: every scan that ends has returned a result of one of the three shapes;
\* no call aborts, whatever the input.
C12_ScanAlwaysReturns ==
    Ended => Returned /\ IsSome(result) /\ ShapesOf(R) # {}
\* Where the aborts are: only at the serialization of a success record holding
\* a u64 above the JS safe-integer range, never at from_uniform_bytes.
AbortsOnlyAtSerialization ==
    pc = "panicked" =>
        /\ Did("verify_mask") /\ DecryptedOpens
        /\ \/ ~U64Leq(Unwrap(loc.committed_value), MAX_SAFE_INTEGER)
           \/ entry = "ledger" /\ ~U64Leq(TheOutput.features.maturity, MAX_SAFE_INTEGER)

\* C13: the ledger scan answers NoMatch to every Pattern A script without an
\* exchange or a key derivation, also when the script's key is the supplied
\* spend public key, and each of its successes is tagged StealthOneSided and
\* comes from a Pattern B script.
C13_LedgerOnlyStealth ==
    entry = "ledger" =>
        /\ Did("match_script") /\ ShapeA(TheOutput.script) =>
              /\ Returned /\ IsNoMatch(R)
              /\ dh_calls = <<>> /\ ~Did("kdf") /\ ~Did("decrypt_data")
        /\ Returned /\ IsSuccess(R) =>
              R.output_source = Some("StealthOneSided") /\ ShapeB(TheOutput.script)
\* A plain output paying to the supplied spend key, its payload encrypted to
\* the view key, came back from the ledger scan as NoMatch.
C13_Witness ==
    /\ entry = "ledger" /\ Returned /\ Decoded
    /\ TheOutput.script = <<PushPubKey(Unwrap(loc.wallet_spend_pk))>>
    /\ SenderPayload(TheOutput, TheOutput.sender_offset_public_key.pt,
                     from_secret_key(Unwrap(loc.wallet_view_sk)))
    /\ IsNoMatch(R)

\* C14: a success of the ledger scan has no script_key and carries the
\* output's maturity; a success of the full-wallet scan carries a script_key
\* and no maturity; the ledger scan never derives a script private key.
C14_KeyExposurePerMode ==
    /\ Returned /\ IsSuccess(R) /\ entry = "ledger" =>
          R.script_key = None /\ R.maturity = Some(TheOutput.features.maturity)
    /\ Returned /\ IsSuccess(R) /\ entry = "wallet" =>
          IsSome(R.script_key) /\ R.maturity = None
    /\ entry = "ledger" => loc.script_private_key = None /\ ~Did("from_uniform_bytes")
\* The ledger scan returned a success.
C14_Witness ==
    /\ Returned /\ entry = "ledger" /\ IsSuccess(R)
    /\ R.maturity = Some(MAX_SAFE_INTEGER) /\ Did("verify_mask")

\* The stealth script was computed by a sender for the wallet key of the scan.
AddressedToWallet ==
    LET wallet_pk == from_secret_key(Unwrap(loc.scan_output).wallet_sk)
    IN  \E n \in PrivateKeys :
            TheOutput.script = <<PushPubKey(from_secret_key(n)), Drop,
                                 PushPubKey(SenderStealthKey(n, wallet_pk, wallet_pk))>>
\* C15: in the full-wallet scan a Pattern B script that is not addressed to the
\* wallet key ends in NoMatch whatever the known script keys are, which are not
\* consulted; a success on a Pattern A script is tagged OneSided and a success
\* on a Pattern B script is tagged StealthOneSided, in both entry points.
C15_SchemeIsolation ==
    /\ entry = "wallet" /\ Did("match_script") /\ ShapeB(TheOutput.script)
           /\ ~AddressedToWallet =>
          /\ Returned /\ IsNoMatch(R)
          /\ dh_calls = <<>> /\ ~Did("find_known_key")
    /\ Decoded /\ ShapeA(TheOutput.script) => loc.output_source # Some("StealthOneSided")
    /\ Decoded /\ ShapeB(TheOutput.script) => loc.output_source # Some("OneSided")
    /\ Returned /\ IsSuccess(R) /\ ShapeA(TheOutput.script) =>
          R.output_source = Some("OneSided")
    /\ Returned /\ IsSuccess(R) /\ ShapeB(TheOutput.script) =>
          R.output_source = Some("StealthOneSided")
\* A stealth-shaped script whose last key is the public key of a known script
\* key, with a payload encrypted to that key, came back as NoMatch.
C15_Witness ==
    /\ entry = "wallet" /\ Returned /\ Decoded /\ ShapeB(TheOutput.script)
    /\ ~AddressedToWallet
    /\ \E i \in 1..Len(Unwrap(loc.scan_output).known_script_keys) :
          LET pk == from_secret_key(Unwrap(loc.scan_output).known_script_keys[i])
          IN  /\ Unwrap(TheOutput.script[3].pk) = pk
              /\ SenderPayload(TheOutput, TheOutput.sender_offset_public_key.pt, pk)
    /\ IsNoMatch(R)

\* The result of the scan under way had its output carried commitment c.
Verified(tv) == tv.ok /\ IsSuccess(Unwrap(tv.js))
ScanWithCommitment(c) ==
    IF entry = "wallet"
    THEN scan_output_for_one_sided_payment(
             to_hex([Unwrap(loc.scan_output) EXCEPT !.output.commitment = c]))
    ELSE scan_output_for_one_sided_payment_ledger(
             [Unwrap(args) EXCEPT !.output = to_hex([TheOutput EXCEPT !.commitment = c])])
\* The output under scan is one that scans as a success, with its commitment
\* replaced by another and everything else, the encrypted data included, kept.
TamperedCommitment ==
    \E c \in Commitments : c # TheOutput.commitment /\ Verified(ScanWithCommitment(c))
\* C16: when an output that scans as a success has its commitment replaced by
\* a different one, the same scan of the altered output returns NoMatch.
C16_CommitmentBinding ==
    Ended /\ Decoded /\ TamperedCommitment => Returned /\ IsNoMatch(R)
\* Such an altered output matched the script and came back as NoMatch.
C16_Witness ==
    /\ Returned /\ Decoded /\ TamperedCommitment
    /\ IsSome(loc.shared_secret) /\ Did("decrypt_data") /\ IsNoMatch(R)

\* What a call returns when it runs alone, and what a scan state shows.
ResultAlone(sc) ==
    IF sc.entry = "wallet" THEN scan_output_for_one_sided_payment(Unwrap(sc.val))
    ELSE scan_output_for_one_sided_payment_ledger(Unwrap(sc.args))
EndedScan(sc) == sc.pc \in {"done", "panicked"}
Outcome(sc) == [ok |-> sc.pc = "done", js |-> sc.result]
SameCall(a, b) == a.entry = b.entry /\ a.val = b.val /\ a.args = b.args

C19_MaxSizeStringBounded ==
    /\ IsSome(mss.value) => MaxSizeString_len(Unwrap(mss.value)) <= mss.max
    /\ mss.op \in {"from_str_checked", "from_utf8_bytes_checked", "try_from_string",
                   "try_from_str"} =>
          (mss.value = None <=> Len(mss.input) > mss.max)
\* What the constructors do ensure: the four checked ones keep the bound, the
\* three that take a string refuse exactly the inputs longer than MAX, and
\* from_utf8_bytes_checked refuses those and the bytes that are not UTF-8.
CheckedConstructorsKeepBound ==
    /\ mss.op # "deserialize" /\ IsSome(mss.value) =>
          MaxSizeString_len(Unwrap(mss.value)) <= mss.max
    /\ mss.op \in {"from_str_checked", "try_from_string", "try_from_str"} =>
          (mss.value = None <=> Len(mss.input) > mss.max)
    /\ mss.op = "from_utf8_bytes_checked" =>
          (mss.value = None <=> Len(mss.input) > mss.max \/ ~IsUtf8(mss.input))

\* The calls of next() that ended the iteration: they returned None at the end
\* of the buffer, or an error.
Completing == {i \in 1..Len(decoder.calls) : decoder.calls[i].item \in {"none", "error"}}
\* C20: after a call of next() has returned None or an error, is_complete is
\* set, and every later call returns None and leaves the buffer as it was; so
\* at most one error is yielded and no token follows an error.
C20_CompletionIsAbsorbing ==
    /\ decoder.is_complete <=> Completing # {}
    /\ \A i \in Completing : \A j \in (i + 1)..Len(decoder.calls) :
          /\ decoder.calls[j].item = "none"
          /\ decoder.calls[j].after = decoder.calls[j].before
    /\ Cardinality({i \in 1..Len(decoder.calls) : decoder.calls[i].item = "error"}) <= 1
\* An error was yielded with a whole token still in the buffer, and the calls
\* after it returned None without taking it.
C20_Witness ==
    /\ \E i \in 1..Len(decoder.calls) :
          /\ decoder.calls[i].item = "error"
          /\ i + 2 <= Len(decoder.calls)
    /\ read_from(decoder.buf).kind = "token"

\* The steps of spec.md section 4.2 as the scan logs them: the script match,
\* the shared secret, the encryption key, the decryption, the commitment check.
StepOps == {"match_script", "dh", "kdf", "decrypt_data", "verify_mask"}
IsStepOp(op) == op \in StepOps
StepsDone == SelectSeq(log, IsStepOp)
FullPath == <<"match_script", "dh", "kdf", "decrypt_data", "verify_mask">>
\* The steps are taken in order, none skipped or repeated, and a scan is in
\* the state its steps say.
InOrder ==
    /\ Len(StepsDone) <= Len(FullPath)
    /\ StepsDone = SubSeq(FullPath, 1, Len(StepsDone))
    /\ pc \in {"verify", "ledger_verify"} => StepsDone = SubSeq(FullPath, 1, 2)
    /\ pc \in {"verify_mask", "ledger_verify_mask"} => StepsDone = SubSeq(FullPath, 1, 4)
    /\ Returned /\ IsSuccess(R) => StepsDone = FullPath
    /\ Ended /\ StepsDone # FullPath => Returned /\ (IsNoMatch(R) \/ IsError(R))
    /\ ~Ended => result = None
\* Once a scan has ended, its result is not touched again: the only step left
\* is the end of the call.
TerminalIsAbsorbing ==
    Ended => pc' = "idle" /\ result' = None /\ log' = <<>>
\* Every scan that ends has handed back a result.
OneResultPerScan == Ended => Returned /\ IsSome(result)
\* C22: every scan takes the steps Matched, SecretDerived, Decrypted, Verified
\* in this order without skipping or repeating one; from any step it leaves
\* only by returning NoMatch or Error; and an ended scan has produced exactly
\* one result and produces nothing further.
C22_StateMachine == [](InOrder /\ OneResultPerScan) /\ [][TerminalIsAbsorbing]_vars
\* What holds of every scan, aborted ones included: the order of the steps,
\* and that nothing follows the end of a scan.
StepsInOrder == []InOrder /\ [][TerminalIsAbsorbing]_vars

\* The view private key and the spend public key the scan works with.
ViewKey ==
    IF entry = "wallet" THEN Unwrap(loc.scan_output).wallet_sk
    ELSE Unwrap(loc.wallet_view_sk)
SpendPublicKey ==
    IF entry = "wallet" THEN from_secret_key(Unwrap(loc.scan_output).wallet_sk)
    ELSE Unwrap(loc.wallet_spend_pk)
\* P' = derive_spend_pubkey(H_stealth(v, N), spend public key) differs from P.
DerivedKeyDiffers ==
    stealth_address_script_spending_key(
        diffie_hellman_stealth_domain_hasher(ViewKey, Unwrap(TheOutput.script[1].pk)),
        SpendPublicKey)
    # Unwrap(TheOutput.script[3].pk)
\* Where an operation first occurs in the log (0 when it does not).
Pos(op) == IF Did(op) THEN CHOOSE i \in 1..Len(log) :
                               log[i] = op /\ \A j \in 1..(i - 1) : log[j] # op
           ELSE 0
\* C23: in both entry points a Pattern B script whose derived spend key is not
\* the embedded key ends in NoMatch with no shared secret, no offset scalar,
\* no script private key and no decryption; the offset scalar and the shared
\* secret are computed only after the comparison, when it succeeded.
C23_StealthMismatchRejectedFirst ==
    Did("match_script") /\ ShapeB(TheOutput.script) =>
        /\ DerivedKeyDiffers =>
              /\ Returned /\ IsNoMatch(R)
              /\ dh_calls = <<>> /\ loc.shared_secret = None
              /\ loc.script_private_key = None
              /\ \A op \in {"from_uniform_bytes", "dh", "kdf", "decrypt_data",
                            "verify_mask"} : ~Did(op)
        /\ \A op \in {"from_uniform_bytes", "dh"} :
              Did(op) => ~DerivedKeyDiffers /\ 0 < Pos("stealth_spending_key")
                         /\ Pos("stealth_spending_key") < Pos(op)
\* A ledger scan of a stealth output addressed to the view key with another
\* spend key, its payload encrypted to the view key, returned NoMatch.
C23_Witness ==
    /\ entry = "ledger" /\ Returned /\ Decoded /\ ShapeB(TheOutput.script)
    /\ DerivedKeyDiffers
    /\ \E n \in PrivateKeys, b \in PublicKeys :
          TheOutput.script[3].pk =
              Some(SenderStealthKey(n, from_secret_key(ViewKey), b))
    /\ SenderPayload(TheOutput, TheOutput.sender_offset_public_key.pt,
                     from_secret_key(ViewKey))
    /\ IsNoMatch(R)

\* The script private key a successful full-wallet scan reports.
ReportedScriptKey == Unwrap(Unwrap(R.script_key).enc)
\* C24: the script private key of a successful full-wallet scan is, for
\* Pattern A, the known key whose public key the script embeds, and, for
\* Pattern B, wallet_sk plus the scalar of H_stealth(wallet_sk, N); in both
\* cases its public key is the key P of the script.
C24_ReportedScriptKey ==
    Returned /\ IsSuccess(R) /\ entry = "wallet" =>
        LET so == Unwrap(loc.scan_output)
            script == TheOutput.script
        IN  /\ IsSome(R.script_key) /\ Unwrap(R.script_key).valid
            /\ ShapeA(script) \/ ShapeB(script)
            /\ ShapeA(script) =>
                  /\ \E i \in 1..Len(so.known_script_keys) :
                        so.known_script_keys[i] = ReportedScriptKey
                  /\ from_secret_key(ReportedScriptKey) = Unwrap(script[1].pk)
            /\ ShapeB(script) =>
                  /\ ReportedScriptKey =
                        ScalarAdd(so.wallet_sk,
                            Scalar({}, {[stealth |->
                                {so.wallet_sk, Unwrap(script[1].pk).pt}]}))
                  /\ from_secret_key(ReportedScriptKey) = Unwrap(script[3].pk)
\* A full-wallet scan of a stealth output succeeded and reported a derived key
\* that is neither the wallet key nor a known key.
C24_Witness ==
    /\ Returned /\ IsSuccess(R) /\ entry = "wallet" /\ ShapeB(TheOutput.script)
    /\ ReportedScriptKey \notin ScanKeys
    /\ from_secret_key(ReportedScriptKey) = Unwrap(TheOutput.script[3].pk)

\* How many times an operation occurs in the log.
Count(op) == Cardinality({i \in 1..Len(log) : log[i] = op})
WalletRequest(sc) == Unwrap(Unwrap(sc.val).enc)
IsWalletScan(sc) == sc.entry = "wallet" /\ IsSome(sc.val) /\ Unwrap(sc.val).valid
KeySet(ks) == {ks[i] : i \in 1..Len(ks)}
\* C26: Pattern A takes the first known key whose public key the script
\* embeds, and the outcome of a scan depends only on which keys the list
\* holds: two scans of the same output with the same wallet key and lists
\* that are permutations or duplications of each other end alike.
C26_KnownKeyOrderIrrelevant ==
    /\ EndedScan(ScanState) /\ EndedScan(other)
       /\ IsWalletScan(ScanState) /\ IsWalletScan(other)
       /\ WalletRequest(ScanState).output = WalletRequest(other).output
       /\ WalletRequest(ScanState).wallet_sk = WalletRequest(other).wallet_sk
       /\ KeySet(WalletRequest(ScanState).known_script_keys)
            = KeySet(WalletRequest(other).known_script_keys)
       => Outcome(ScanState) = Outcome(other)
    /\ IsWalletScan(ScanState) /\ dh_calls # <<>> /\ ShapeA(TheOutput.script) =>
          LET ks == WalletRequest(ScanState).known_script_keys
              hits == {i \in 1..Len(ks) :
                          from_secret_key(ks[i]) = Unwrap(TheOutput.script[1].pk)}
          IN  /\ hits # {}
              /\ dh_calls[1].sk = ks[CHOOSE i \in hits : \A j \in hits : i <= j]
\* Two scans of the same plain output, the matching key first in one list and
\* last in the other, both returned the same success.
C26_Witness ==
    /\ Returned /\ other.pc = "done" /\ IsWalletScan(ScanState) /\ IsWalletScan(other)
    /\ WalletRequest(ScanState).output = WalletRequest(other).output
    /\ WalletRequest(ScanState).wallet_sk = WalletRequest(other).wallet_sk
    /\ WalletRequest(ScanState).known_script_keys = <<PrivateKeyOf(1), PrivateKeyOf(2)>>
    /\ WalletRequest(other).known_script_keys = <<PrivateKeyOf(2), PrivateKeyOf(1)>>
    /\ IsSuccess(R) /\ result = other.result

\* Two ended full-wallet scans of the same output.
SameOutputScans ==
    /\ EndedScan(ScanState) /\ EndedScan(other)
    /\ IsWalletScan(ScanState) /\ IsWalletScan(other)
    /\ WalletRequest(ScanState).output = WalletRequest(other).output
C27_WitnessStealth ==
    /\ SameOutputScans /\ Returned /\ other.pc = "done"
    /\ ShapeB(WalletRequest(ScanState).output.script)
    /\ WalletRequest(ScanState).wallet_sk = WalletRequest(other).wallet_sk
    /\ WalletRequest(ScanState).known_script_keys = <<>>
    /\ Len(WalletRequest(other).known_script_keys) = 2
    /\ IsSuccess(R) /\ result = other.result

\* The result of the codec call looked at.
CodecResult == Unwrap(codec.result)
\* C21: write_to fails with InvalidInput exactly when there are more than
\* NUM_FIELDS fields; what it writes for at most NUM_FIELDS fields, read_from
\* reads back as the same fields in the same order; read_from never yields
\* more than NUM_FIELDS fields and refuses a declared length above it;
\* from_byte inverts as_byte on every variant and answers UnknownByteCode to
\* every other byte.
C21_OutputFieldsBoundedRoundTrip ==
    /\ codec.op = "write_to" =>
          /\ CodecResult.ok <=> Len(codec.fields) <= NUM_FIELDS
          /\ ~CodecResult.ok => CodecResult.err = "InvalidInput"
          /\ CodecResult.ok =>
                LET back == OutputFields_read_from(CodecResult.bytes)
                IN  back.ok /\ back.fields = codec.fields /\ back.bytes = <<>>
    /\ codec.op = "read_from" =>
          /\ CodecResult.ok => Len(CodecResult.fields) <= NUM_FIELDS
          /\ codec.buf # <<>> /\ codec.buf[1] < 128 /\ codec.buf[1] > NUM_FIELDS =>
                ~CodecResult.ok /\ CodecResult.err = "InvalidInput"
    /\ codec.op = "from_byte" =>
          /\ CodecResult.ok <=> \E f \in OutputField : as_byte(f) = codec.byte
          /\ CodecResult.ok => as_byte(CodecResult.fields[1]) = codec.byte
          /\ ~CodecResult.ok => CodecResult.err = "UnknownByteCode"
    /\ \A f \in OutputField : from_byte(as_byte(f)) = [ok |-> TRUE, field |-> Some(f), err |-> ""]
    /\ Cardinality(OutputField) = NUM_FIELDS
\* A list of exactly NUM_FIELDS distinct fields was written and reads back.
C21_Witness ==
    /\ codec.op = "write_to" /\ Len(codec.fields) = NUM_FIELDS /\ CodecResult.ok
    /\ Cardinality({codec.fields[i] : i \in 1..NUM_FIELDS}) = NUM_FIELDS
    /\ OutputFields_read_from(CodecResult.bytes).fields = codec.fields
\* A list of NUM_FIELDS + 1 fields was refused by write_to.
C21_WitnessTooLong ==
    codec.op = "write_to" /\ Len(codec.fields) = NUM_FIELDS + 1 /\ ~CodecResult.ok
\* A buffer that declares NUM_FIELDS + 1 fields and holds them was refused.
C21_WitnessReadTooLong ==
    /\ codec.op = "read_from" /\ Len(codec.buf) = NUM_FIELDS + 2
    /\ codec.buf[1] = NUM_FIELDS + 1 /\ ~CodecResult.ok

\* What the OrFilter call looked at left behind.
OrResult == Unwrap(orf.result)
\* The two sub-filters of the call, each run alone on the original set: A on
\* the context after the or token's own read, B on what A left of it.
SubFilterA == Filter_filter(orf.tokens[1].name, Tail(orf.tokens), orf.output_set)
SubFilterB ==
    Filter_filter(SubFilterA.tokens[1].name, Tail(SubFilterA.tokens), orf.output_set)
HasFilterA == orf.tokens # <<>> /\ orf.tokens[1].kind = "filter"
HasFilterB ==
    /\ HasFilterA /\ SubFilterA.ok
    /\ SubFilterA.tokens # <<>> /\ SubFilterA.tokens[1].kind = "filter"
\* C28: a successful OrFilter leaves filterA(original) union filterB(original),
\* a subset of the original set, with B run on the original set and on the
\* context A left; it succeeds exactly when both sub-filters are there and
\* succeed; when one fails its error is returned and the caller's set is as
\* it was.
C28_OrFilterIsUnion ==
    orf.op = "filter" =>
        /\ OrResult.ok <=> HasFilterB /\ SubFilterB.ok
        /\ OrResult.ok =>
              /\ OrResult.output_set = SubFilterA.output_set \cup SubFilterB.output_set
              /\ OrResult.output_set \subseteq orf.output_set
              /\ OrResult.tokens = SubFilterB.tokens
        /\ ~OrResult.ok => OrResult.output_set = orf.output_set
        /\ HasFilterA /\ ~SubFilterA.ok => ~OrResult.ok /\ OrResult.err = SubFilterA.err
        /\ HasFilterB /\ ~SubFilterB.ok => ~OrResult.ok /\ OrResult.err = SubFilterB.err
\* An or of two hash filters kept two outputs, one from each sub-filter,
\* neither of which the other sub-filter keeps.
C28_Witness ==
    /\ orf.op = "filter" /\ OrResult.ok /\ HasFilterB
    /\ Cardinality(OrResult.output_set) = 2
    /\ SubFilterA.output_set \cap SubFilterB.output_set = {}
    /\ SubFilterA.output_set # {} /\ SubFilterB.output_set # {}
    /\ OrResult.output_set # orf.output_set
\* The second sub-filter failed on an invalid argument after the first had
\* narrowed its copy, and the caller's set is as it was.
C28_WitnessError ==
    /\ orf.op = "filter" /\ ~OrResult.ok /\ HasFilterB
    /\ SubFilterA.output_set # orf.output_set
    /\ OrResult.err = "InvalidArgument" /\ OrResult.output_set = orf.output_set

\* C29: try_build returns a BuilderError unless a signing succeeded before
\* and script, input_data and script_key_id are set; signing without a script
\* fails with a BuilderError; the two signature flags are always equal; once
\* a signing has succeeded they stay set whatever setter runs later, and
\* try_build of a builder with the three fields set then passes every
\* builder check.
C29_BuilderChecks ==
    builder.created =>
        LET b == builder.b
            Complete == /\ builder.signed /\ IsSome(b.script) /\ IsSome(b.input_data)
                        /\ IsSome(b.script_key_id)
        IN  /\ builder.last.op = "try_build" /\ ~Complete =>
                  ~builder.last.ok /\ builder.last.err = "BuilderError"
            /\ builder.last.op = "try_build" /\ Complete =>
                  builder.last.err # "BuilderError"
            /\ builder.last.op = "sign_as_sender_and_receiver" /\ b.script = None =>
                  ~builder.last.ok /\ builder.last.err = "BuilderError"
            /\ b.metadata_signed_by_receiver = b.metadata_signed_by_sender
            /\ builder.signed <=> b.metadata_signed_by_receiver
\* A builder was signed, had its script replaced and other fields set after
\* that, and try_build built the output.
C29_Witness ==
    /\ builder.created /\ builder.last.op = "try_build" /\ builder.last.ok
    /\ builder.signed /\ builder.modified /\ builder.b.script = Some(2)
    /\ builder.b.features = 1
\* try_build refused a builder that has every field but was never signed.
C29_WitnessUnsigned ==
    /\ builder.created /\ builder.last.op = "try_build" /\ ~builder.last.ok
    /\ ~builder.signed /\ IsSome(builder.b.script) /\ IsSome(builder.b.input_data)
    /\ IsSome(builder.b.script_key_id) /\ IsSome(builder.b.sender_offset_public_key)

\* What the derive_shard_key call looked at returned.
ShardResult == Unwrap(shard.result)
\* The bytes of a number, most significant first, reduced modulo m.
RECURSIVE BigEndianMod(_, _, _)
BigEndianMod(bytes, m, n) ==
    IF n = 0 THEN 0 ELSE (BigEndianMod(bytes, m, n - 1) * 256 + bytes[n]) % m
\* (public key as a big-endian integer + epoch) mod interval, for interval > 0.
ShardRemainder ==
    LET m == shard.interval[1] + 256 * shard.interval[2]
        e == [i \in 1..8 |-> shard.epoch[9 - i]]
    IN  (BigEndianMod(shard.public_key, m, 32) + BigEndianMod(e, m, 8)) % m
\* C30: derive_shard_key returns the previous key exactly when there is one
\* and (public key as big-endian integer + epoch) mod interval is not zero;
\* with no previous key, or a zero remainder, it returns the hash of the
\* public key and the block hash; with a previous key and interval 0 it
\* aborts on a division by zero, and in no other case.
C30_DeriveShardKey ==
    shard.op = "derive_shard_key" =>
        LET fresh == Some(generate_shard_key(shard.public_key, shard.block_hash))
            zero_interval == IsZero(shard.interval)
        IN  /\ shard.prev_shard_key = None =>
                  ShardResult.panic = "" /\ ShardResult.key = fresh
            /\ shard.prev_shard_key # None /\ ~zero_interval =>
                  /\ ShardResult.panic = ""
                  /\ ShardRemainder # 0 => ShardResult.key = shard.prev_shard_key
                  /\ ShardRemainder = 0 => ShardResult.key = fresh
            /\ shard.prev_shard_key # None /\ zero_interval =>
                  ShardResult.panic = "division by zero" /\ ShardResult.key = None
            /\ ShardResult.panic # "" => shard.prev_shard_key # None /\ zero_interval
\* With a previous key, a key whose first byte is not zero, the largest epoch
\* and an interval above 1, the remainder was zero and a fresh key returned.
C30_Witness ==
    /\ shard.op = "derive_shard_key" /\ shard.prev_shard_key # None
    /\ shard.public_key[1] # 0 /\ shard.epoch[8] = 255
    /\ ~IsZero(shard.interval) /\ shard.interval[1] > 1
    /\ ShardRemainder = 0
    /\ ShardResult.key = Some(generate_shard_key(shard.public_key, shard.block_hash))
\* The same with a non-zero remainder: the previous key came back.
C30_WitnessKept ==
    /\ shard.op = "derive_shard_key" /\ shard.prev_shard_key # None
    /\ shard.public_key[1] # 0 /\ ~IsZero(shard.interval)
    /\ ShardRemainder # 0 /\ ShardResult.key = shard.prev_shard_key
\* With a previous key and interval 0 the call aborted.
C30_WitnessDivisionByZero ==
    /\ shard.op = "derive_shard_key" /\ shard.prev_shard_key # None
    /\ IsZero(shard.interval) /\ ShardResult.panic = "division by zero"

====
